---------------------------- MODULE Spec2Model ----------------------------
(***************************************************************************)
(* Telephony extension: webhook ingress server, provider adapters          *)
(* (Twilio, Telnyx, Plivo, Mock) and the SMS chunker.                      *)
(*                                                                         *)
(* Four specifications share the module:                                   *)
(*   Spec        the webhook server handling requests                      *)
(*   SpecVerify  the adapters' verifyWebhook applied to a WebhookContext   *)
(*   SpecParse   the adapters' parseInboundSms applied to a WebhookContext *)
(*   SpecChunk   chunkSms applied to a text and ChunkOptions               *)
(* Strings that the code inspects character by character are sequences of  *)
(* one-character strings (UTF-16 code units).                              *)
(***************************************************************************)
EXTENDS Integers, Sequences, FiniteSets, TLC

VARIABLES
    server,      \* server: what it was constructed with (provider, event handler)
    pc,          \* server: position of the request being handled
    req,         \* server: the request (method, url, host, headers, body)
    totalBytes,  \* server: readBody's totalBytes
    chunks,      \* server: number of chunks readBody holds
    timer,       \* server: readBody's 30 s timer
    destroyed,   \* server: whether req.destroy() was called
    res,         \* server: the ServerResponse (statusCode, headers, body, ended)
    calls,       \* server: provider / handler / response calls made, in order
    vin,         \* verifyWebhook: the input (provider, options, context, clock)
    vout,        \* verifyWebhook: the outcome
    pin,         \* parseInboundSms: the input
    pout,        \* parseInboundSms: the outcome
    pagain,      \* parseInboundSms: the outcome of parsing the same context again
    cin,         \* chunkSms: the input (text, options)
    cout,        \* chunkSms: the outcome
    stin,        \* status mapping: the input (function, status string)
    stout,       \* status mapping: the MessageStatus returned
    sendCall,    \* send: the call (provider, operation, options, params)
    sendPc,      \* send: position of the call (idle, fetching, done)
    fetched,     \* send: the outbound HTTP requests issued, in order
    response,    \* send: the HTTP response fetch resolved with
    sendOut,     \* send: the outcome of the call (result or error)
    mocks,       \* mock: the MockProvider instances (counters and logs)
    mockCalls,   \* mock: the send and call operations made, with what each returned
    serverRef,   \* lifecycle: this.server (0 is null, else the number of an http.Server)
    httpServers, \* lifecycle: the http.Servers created (state, connections, close listeners)
    startCalls,  \* lifecycle: the promises of the start() calls
    stopCalls,   \* lifecycle: the promises of the stop() calls
    splitIn,     \* splitIntoSegments: the call (text, limit, gsm7)
    remainingText, \* splitIntoSegments: remaining
    pushed,      \* splitIntoSegments: segments
    splitPc,     \* splitIntoSegments: position (idle, loop, done)
    runtimePromise, \* runtime: runtimePromise (0 is null, else the number of a promise)
    runtime,     \* runtime: runtime (0 is null, else the number of the runtime)
    promises,    \* runtime: the promises createTelephonyRuntime returned (state, server, reactions)
    jobs,        \* runtime: the promise jobs queued, first to run first
    ensureCalls, \* runtime: the ensureRuntime call of each caller (position, outcome)
    serviceStop, \* runtime: the service stop in progress, if any
    stopsDone,   \* runtime: the service stops completed
    createdSinceStop \* runtime: createTelephonyRuntime invocations since the last completed stop

serverVars == <<server, pc, req, totalBytes, chunks, timer, destroyed, res, calls>>
verifyVars == <<vin, vout>>
parseVars  == <<pin, pout, pagain>>
chunkVars  == <<cin, cout>>
statusVars == <<stin, stout>>
sendVars == <<sendCall, sendPc, fetched, response, sendOut>>
mockVars == <<mocks, mockCalls>>
lifeVars == <<serverRef, httpServers, startCalls, stopCalls>>
splitVars == <<splitIn, remainingText, pushed, splitPc>>
runtimeVars == <<runtimePromise, runtime, promises, jobs, ensureCalls, serviceStop, stopsDone, createdSinceStop>>
vars ==
    <<server, pc, req, totalBytes, chunks, timer, destroyed, res, calls,
      vin, vout, pin, pout, pagain, cin, cout,
      stin, stout,
      sendCall, sendPc, fetched, response, sendOut,
      mocks, mockCalls,
      serverRef, httpServers, startCalls, stopCalls,
      splitIn, remainingText, pushed, splitPc,
      runtimePromise, runtime, promises, jobs, ensureCalls, serviceStop, stopsDone, createdSinceStop>>

\* The value of a variable that holds nothing (JS undefined, no request, no result).
None == [t |-> "undefined"]

(***************************************************************************)
(* Generic sequence helpers.                                               *)
(***************************************************************************)
Min(a, b) == IF a <= b THEN a ELSE b
Max(a, b) == IF a >= b THEN a ELSE b

\* String.prototype.startsWith on sequences
StartsWith(s, p) == Len(p) <= Len(s) /\ SubSeq(s, 1, Len(p)) = p

\* String.prototype.slice(from) and slice(0, to) with 0-based indexes
SliceTo(s, to) == SubSeq(s, 1, Min(Max(to, 0), Len(s)))
SliceFrom(s, from) == SubSeq(s, Min(Max(from, 0), Len(s)) + 1, Len(s))


(***************************************************************************)
(* SMS chunker (sms-chunker.ts).  A text is a sequence of UTF-16 code      *)
(* units; a code unit outside printable ASCII is written "U+XXXX".         *)
(***************************************************************************)
GSM7_SINGLE_LIMIT == 160
GSM7_MULTI_LIMIT == 153
UCS2_SINGLE_LIMIT == 70
UCS2_MULTI_LIMIT == 67

GSM7_CHARS ==
    { "U+000A", "U+000D", " ", "!", "U+0022", "#", "$", "%", "&", "'", "(",
      ")", "*", "+", ",", "-", ".", "/", "0", "1", "2", "3", "4", "5", "6",
      "7", "8", "9", ":", ";", "<", "=", ">", "?", "@", "A", "B", "C", "D",
      "E", "F", "G", "H", "I", "J", "K", "L", "M", "N", "O", "P", "Q", "R",
      "S", "T", "U", "V", "W", "X", "Y", "Z", "_", "a", "b", "c", "d", "e",
      "f", "g", "h", "i", "j", "k", "l", "m", "n", "o", "p", "q", "r", "s",
      "t", "u", "v", "w", "x", "y", "z", "U+00A1", "U+00A3", "U+00A4",
      "U+00A5", "U+00A7", "U+00C4", "U+00C5", "U+00C6", "U+00C7", "U+00C9",
      "U+00D1", "U+00D6", "U+00D8", "U+00DC", "U+00DF", "U+00E0", "U+00E4",
      "U+00E5", "U+00E6", "U+00E8", "U+00E9", "U+00EC", "U+00F1", "U+00F2",
      "U+00F6", "U+00F8", "U+00F9", "U+00FC", "U+0393", "U+0394", "U+0398",
      "U+039B", "U+039E", "U+03A0", "U+03A3", "U+03A6", "U+03A8", "U+03A9" }

GSM7_EXTENDED == { "|", "^", "U+20AC", "{", "}", "[", "]", "~", "U+005C" }

\* The ellipsis the truncations append (U+2026), not a GSM-7 character.
Ellipsis == "U+2026"

\* The code units String.prototype.trimStart / trimEnd remove.
WhiteSpace == { " ", "U+000A", "U+000D", "U+0009", "U+000B", "U+000C", "U+00A0",
                "U+FEFF", "U+2028", "U+2029" }

isGsm7(text) ==
    \A i \in 1..Len(text) : text[i] \in GSM7_CHARS \/ text[i] \in GSM7_EXTENDED

CharLen(c) == IF c \in GSM7_EXTENDED THEN 2 ELSE 1

gsm7Length(text) ==
    Len(text) + Cardinality({ i \in 1..Len(text) : text[i] \in GSM7_EXTENDED })

\* String.prototype.trimEnd / trimStart: drop the trailing / leading run of white space.
trimEnd(s) ==
    LET keep == { i \in 1..Len(s) : s[i] \notin WhiteSpace }
    IN  IF keep = {} THEN <<>>
        ELSE SubSeq(s, 1, CHOOSE i \in keep : \A j \in keep : j <= i)

trimStart(s) ==
    LET keep == { i \in 1..Len(s) : s[i] \notin WhiteSpace }
    IN  IF keep = {} THEN <<>>
        ELSE SubSeq(s, CHOOSE i \in keep : \A j \in keep : i <= j, Len(s))

\* String.prototype.lastIndexOf for one code unit: 0-based, -1 when absent.
lastIndexOf(s, c) ==
    LET hits == { i \in 1..Len(s) : s[i] = c }
    IN  IF hits = {} THEN -1 ELSE (CHOOSE i \in hits : \A j \in hits : j <= i) - 1

\* The loop of truncateToLimit and of findSplitPoint: it adds the slots of the
\* leading characters and stops before the first one that would exceed `room`,
\* returning the number of characters taken.  Every character takes at least one
\* slot, so the slots of a prefix grow with its length and the loop's result is the
\* longest prefix whose slots fit; FitBetween finds it by bisection between lo
\* (which fits) and hi.
RECURSIVE FitBetween(_, _, _, _)
FitBetween(chars, room, lo, hi) ==
    IF lo >= hi THEN lo
    ELSE LET mid == (lo + hi + 1) \div 2
         IN  IF gsm7Length(SubSeq(chars, 1, mid)) <= room
             THEN FitBetween(chars, room, mid, hi)
             ELSE FitBetween(chars, room, lo, mid - 1)

FitCount(chars, room) == FitBetween(chars, room, 0, Min(Len(chars), Max(room, 0)))

truncateToLimit(text, limit, gsm7) ==
    IF ~gsm7 THEN SliceTo(text, limit - 1) \o <<Ellipsis>>
    ELSE SliceTo(text, FitCount(text, limit - 1)) \o <<Ellipsis>>

\* The rest of findSplitPoint once maxIdx is known.
SplitPointIn(text, maxIdx) ==
    LET searchRegion == SliceTo(text, maxIdx)
        lastSpace == Max(lastIndexOf(searchRegion, " "), lastIndexOf(searchRegion, "U+000A"))
    IN  \* lastSpace > maxIdx * 0.3
        IF 10 * lastSpace > 3 * maxIdx THEN lastSpace + 1 ELSE maxIdx

\* maxIdx is computed once, by the loop over the characters, and then used.
findSplitPoint(text, limit, gsm7) ==
    CHOOSE splitAt \in { SplitPointIn(text, maxIdx) :
                           maxIdx \in {IF ~gsm7 THEN limit ELSE FitCount(text, limit)} } : TRUE

\* Mutant of SplitLoop: the loop goes on one character after the split index.
RECURSIVE SplitLoopSkipsOne(_, _, _, _)
SplitLoopSkipsOne(remaining, limit, gsm7, segments) ==
    IF Len(remaining) = 0 THEN segments
    ELSE LET effectiveLen == IF gsm7 THEN gsm7Length(remaining) ELSE Len(remaining)
         IN  IF effectiveLen <= limit THEN Append(segments, remaining)
             ELSE LET splitAt == findSplitPoint(remaining, limit, gsm7)
                  IN  SplitLoopSkipsOne(trimStart(SliceFrom(remaining, splitAt + 1)), limit, gsm7,
                                        Append(segments, trimEnd(SliceTo(remaining, splitAt))))

RECURSIVE SplitLoop(_, _, _, _)
SplitLoop(remaining, limit, gsm7, segments) ==
    IF Len(remaining) = 0 THEN segments
    ELSE LET effectiveLen == IF gsm7 THEN gsm7Length(remaining) ELSE Len(remaining)
         IN  IF effectiveLen <= limit THEN Append(segments, remaining)
             ELSE LET splitAt == findSplitPoint(remaining, limit, gsm7)
                  IN  SplitLoop(trimStart(SliceFrom(remaining, splitAt)), limit, gsm7,
                                Append(segments, trimEnd(SliceTo(remaining, splitAt))))

splitIntoSegments(text, limit, gsm7) == SplitLoop(text, limit, gsm7, <<>>)

\* String(n) for n >= 0, as a sequence of digit characters.
DigitChar == <<"0", "1", "2", "3", "4", "5", "6", "7", "8", "9">>
RECURSIVE DecimalString(_)
DecimalString(n) ==
    IF n < 10 THEN <<DigitChar[n + 1]>>
    ELSE Append(DecimalString(n \div 10), DigitChar[(n % 10) + 1])

\* `[${i}/${total}] `
NumberPrefix(i, total) ==
    <<"[">> \o DecimalString(i) \o <<"/">> \o DecimalString(total) \o <<"]", " ">>

\* Mutant of addSegmentNumbering: the prefixes carry the estimated count, not the
\* count of the segments made.
addSegmentNumberingEstimated(text, baseLimit, gsm7, estimatedCount) ==
    LET digits == Len(DecimalString(estimatedCount))
        rawSegments == splitIntoSegments(text, baseLimit - (2 + digits + 1 + digits + 2), gsm7)
    IN  [i \in 1..Len(rawSegments) |-> NumberPrefix(i, estimatedCount) \o rawSegments[i]]

addSegmentNumbering(text, baseLimit, gsm7, estimatedCount) ==
    LET digits == Len(DecimalString(estimatedCount))
        overhead == 2 + digits + 1 + digits + 2
        effectiveLimit == baseLimit - overhead
    IN  IF effectiveLimit < 20 THEN splitIntoSegments(text, baseLimit, gsm7)
        ELSE LET rawSegments == splitIntoSegments(text, effectiveLimit, gsm7)
                 total == Len(rawSegments)
             IN  [i \in 1..total |-> NumberPrefix(i, total) \o rawSegments[i]]

\* Mutant of HardTruncate: the slice keeps one character too many.
HardTruncateOffByOne(text, maxLength) ==
    IF Len(text) > maxLength THEN SliceTo(text, maxLength + 1) \o <<Ellipsis>> ELSE text

\* The hard truncation of chunkSms
HardTruncate(text, maxLength) ==
    IF Len(text) > maxLength THEN SliceTo(text, maxLength) \o <<Ellipsis>> ELSE text

\* Mutant of fitsSingleSms: a text of exactly the limit is no longer a single SMS.
fitsSingleSmsStrict(effectiveLength, singleLimit) == effectiveLength < singleLimit

\* The single-SMS check of chunkSms
fitsSingleSms(effectiveLength, singleLimit) == effectiveLength <= singleLimit

chunkSms(text, options) ==
    IF Len(text) = 0 THEN <<>>
    ELSE
    LET truncated == HardTruncate(text, options.maxLength)
        gsm7 == isGsm7(truncated)
        singleLimit == IF gsm7 THEN GSM7_SINGLE_LIMIT ELSE UCS2_SINGLE_LIMIT
        multiLimit == IF gsm7 THEN GSM7_MULTI_LIMIT ELSE UCS2_MULTI_LIMIT
        effectiveLength == IF gsm7 THEN gsm7Length(truncated) ELSE Len(truncated)
    IN  IF fitsSingleSms(effectiveLength, singleLimit) THEN <<truncated>>
        ELSE IF options.mode = "single" THEN <<truncateToLimit(truncated, singleLimit, gsm7)>>
        ELSE LET segments == splitIntoSegments(truncated, multiLimit, gsm7)
             IN  IF ~options.segmentNumbering \/ Len(segments) <= 1 THEN segments
                 ELSE addSegmentNumbering(truncated, multiLimit, gsm7, Len(segments))



(***************************************************************************)
(* SpecChunk: chunkSms applied to texts and options drawn from bounded     *)
(* sets.  A text is a pattern repeated up to a length, followed by a tail; *)
(* the lengths lie around the limits of the chunker and their multiples.   *)
(***************************************************************************)
\* How far around each limit the text lengths range.
LenSlack == 1
\* The longest of the short texts.
MaxShortLen == 3

\* The first n code units of `unit` repeated.
Cycle(unit, n) == [i \in 1..n |-> unit[((i - 1) % Len(unit)) + 1]]

ChunkUnits ==
    { <<"A">>,                           \* GSM-7 basic characters only
      <<"[">>,                           \* GSM-7 extended characters (2 slots each)
      <<" ">>,                           \* whitespace only
      <<"w", "o", "r", "d", " ">>,       \* words
      <<"a", "U+000A", "[", "b">>,       \* lines with extended characters
      <<"U+3042">>,                      \* UCS-2 text (BMP)
      <<"U+D83D", "U+DE00", " ">> }      \* emoji (surrogate pairs) and spaces

ChunkTails == { <<>>, <<"U+D83D", "U+DE00">>, <<" ", "z">> }

LenAnchors ==
    { UCS2_MULTI_LIMIT, UCS2_SINGLE_LIMIT, GSM7_MULTI_LIMIT, GSM7_SINGLE_LIMIT,
      GSM7_SINGLE_LIMIT \div 2, 2 * UCS2_MULTI_LIMIT, 2 * GSM7_MULTI_LIMIT,
      3 * UCS2_MULTI_LIMIT }

ChunkLens ==
    (1..MaxShortLen) \cup
    { a + d : a \in LenAnchors, d \in (0 - LenSlack - 2)..LenSlack }

\* Texts with one space near 30% of the first candidate segment: e extended
\* characters, then basic ones with the space at index p, BoundaryTextLen in all.
BoundaryTextLen == 170
BoundaryTexts ==
    { Cycle(<<"[">>, e) \o Cycle(<<"A">>, p - e) \o <<" ">> \o Cycle(<<"A">>, BoundaryTextLen - p - 1) :
        e \in {0, 3}, p \in 44..47 }

ChunkTexts ==
    { Cycle(u, n) \o t : u \in ChunkUnits, n \in ChunkLens, t \in ChunkTails }
      \cup BoundaryTexts

\* maxLength: a ceiling below every limit, the ceilings of the tests, the default.
ChunkOptionsSet ==
    [ mode : {"auto", "single", "multi"},
      maxLength : {2, 100, 1600},
      segmentNumbering : BOOLEAN ]

ServerIdle ==
    /\ server = None /\ pc = "idle" /\ req = None /\ totalBytes = 0 /\ chunks = 0
    /\ timer = "none" /\ destroyed = FALSE /\ res = None /\ calls = <<>>
VerifyIdle == vin = None /\ vout = None
ParseIdle == pin = None /\ pout = None /\ pagain = None
ChunkIdle == cin = None /\ cout = None
StatusIdle == stin = None /\ stout = None
SendIdle == sendCall = None /\ sendPc = "idle" /\ fetched = <<>> /\ response = None /\ sendOut = None
MockIdle == mocks = None /\ mockCalls = <<>>
LifeIdle == serverRef = 0 /\ httpServers = <<>> /\ startCalls = <<>> /\ stopCalls = <<>>
SplitIdle == splitIn = None /\ remainingText = None /\ pushed = <<>> /\ splitPc = "idle"
RuntimeIdle == runtimePromise = 0 /\ runtime = 0 /\ promises = <<>> /\ jobs = <<>> /\ ensureCalls = <<>> /\ serviceStop = None /\ stopsDone = 0 /\ createdSinceStop = 0

InitChunk ==
    /\ ServerIdle /\ VerifyIdle /\ ParseIdle /\ StatusIdle /\ SendIdle /\ MockIdle /\ LifeIdle /\ SplitIdle /\ RuntimeIdle
    /\ cin \in [ text : ChunkTexts, options : ChunkOptionsSet ]
    /\ cout = None

ChunkSms ==
    /\ cin # None /\ cout = None
    /\ cout' = [ t |-> "segments", segments |-> chunkSms(cin.text, cin.options) ]
    /\ UNCHANGED <<cin, serverVars, verifyVars, parseVars, statusVars, sendVars, mockVars,
                   lifeVars, splitVars, runtimeVars>>

NextChunk == ChunkSms

SpecChunk == InitChunk /\ [][NextChunk]_vars

(***************************************************************************)
(* SpecSplit: the loop of splitIntoSegments, one iteration a step, on the  *)
(* calls chunkSms and addSegmentNumbering make for the texts and options   *)
(* of SpecChunk.                                                           *)
(***************************************************************************)
SplitCall(text, limit, gsm7) == [text |-> text, limit |-> limit, gsm7 |-> gsm7]

\* The limit addSegmentNumbering splits with
NumberedLimit(baseLimit, estimatedCount) ==
    LET digits == Len(DecimalString(estimatedCount))
        effectiveLimit == baseLimit - (2 + digits + 1 + digits + 2)
    IN  IF effectiveLimit < 20 THEN baseLimit ELSE effectiveLimit

\* The calls of splitIntoSegments that chunkSms(text, options) makes
SplitCallsOfTruncated(truncated, options, gsm7, multiLimit, singleLimit) ==
    IF fitsSingleSms(IF gsm7 THEN gsm7Length(truncated) ELSE Len(truncated), singleLimit)
         \/ options.mode = "single"
    THEN {}
    ELSE { SplitCall(truncated, multiLimit, gsm7) } \cup
         ( IF options.segmentNumbering /\ Len(splitIntoSegments(truncated, multiLimit, gsm7)) > 1
           THEN { SplitCall(truncated,
                            NumberedLimit(multiLimit, Len(splitIntoSegments(truncated, multiLimit, gsm7))),
                            gsm7) }
           ELSE {} )

SplitCallsOf(text, options) ==
    IF Len(text) = 0 THEN {}
    ELSE IF isGsm7(HardTruncate(text, options.maxLength))
    THEN SplitCallsOfTruncated(HardTruncate(text, options.maxLength), options, TRUE,
                               GSM7_MULTI_LIMIT, GSM7_SINGLE_LIMIT)
    ELSE SplitCallsOfTruncated(HardTruncate(text, options.maxLength), options, FALSE,
                               UCS2_MULTI_LIMIT, UCS2_SINGLE_LIMIT)

SplitCalls == UNION { SplitCallsOf(t, o) : t \in ChunkTexts, o \in ChunkOptionsSet }

InitSplit ==
    /\ ServerIdle /\ VerifyIdle /\ ParseIdle /\ ChunkIdle /\ StatusIdle /\ SendIdle /\ MockIdle /\ LifeIdle /\ RuntimeIdle
    /\ splitIn \in SplitCalls
    /\ remainingText = None /\ pushed = <<>> /\ splitPc = "idle"

\* splitIntoSegments(text, limit, gsm7) is called: segments = [], remaining = text
SplitEnter ==
    /\ splitPc = "idle" /\ splitIn # None
    /\ remainingText' = splitIn.text
    /\ splitPc' = "loop"
    /\ UNCHANGED <<splitIn, pushed, serverVars, verifyVars, parseVars, chunkVars, statusVars, sendVars, mockVars, lifeVars,
                   runtimeVars>>

\* Mutant of SplitStep: the loop body pushes the segment and leaves remaining as
\* it was.
SplitStepKeepsRemaining ==
    /\ splitPc = "loop"
    /\ IF Len(remainingText) = 0
       THEN splitPc' = "done" /\ UNCHANGED pushed
       ELSE IF (IF splitIn.gsm7 THEN gsm7Length(remainingText) ELSE Len(remainingText)) <= splitIn.limit
       THEN pushed' = Append(pushed, remainingText) /\ splitPc' = "done"
       ELSE \E splitAt \in {findSplitPoint(remainingText, splitIn.limit, splitIn.gsm7)} :
              \E head \in {SliceTo(remainingText, splitAt)} :
                /\ pushed' = Append(pushed, trimEnd(head))
                /\ UNCHANGED splitPc
    /\ UNCHANGED <<splitIn, remainingText, serverVars, verifyVars, parseVars, chunkVars, statusVars, sendVars, mockVars, lifeVars,
                   runtimeVars>>

\* One test of the while condition and, when it holds, one run of the loop body
SplitStep ==
    /\ splitPc = "loop"
    /\ IF Len(remainingText) = 0
       THEN splitPc' = "done" /\ UNCHANGED <<remainingText, pushed>>
       ELSE IF (IF splitIn.gsm7 THEN gsm7Length(remainingText) ELSE Len(remainingText)) <= splitIn.limit
       THEN /\ pushed' = Append(pushed, remainingText)
            /\ splitPc' = "done"
            /\ UNCHANGED remainingText
       ELSE \E splitAt \in {findSplitPoint(remainingText, splitIn.limit, splitIn.gsm7)} :
              \E head \in {SliceTo(remainingText, splitAt)}, rest \in {SliceFrom(remainingText, splitAt)} :
                /\ pushed' = Append(pushed, trimEnd(head))
                /\ remainingText' = trimStart(rest)
                /\ UNCHANGED splitPc
    /\ UNCHANGED <<splitIn, serverVars, verifyVars, parseVars, chunkVars, statusVars, sendVars, mockVars, lifeVars,
                   runtimeVars>>

NextSplit == SplitEnter \/ SplitStep

SpecSplit == InitSplit /\ [][NextSplit]_vars

\* The loop is run as long as it can be
SpecSplitFair == SpecSplit /\ WF_vars(SplitStep)

(***************************************************************************)
(* Claims about chunkSms, checked under SpecChunk.                         *)
(***************************************************************************)
HighSurrogates == { "U+D83D" }
LowSurrogates == { "U+DE00" }

\* The number of characters (code points) of a text: a surrogate pair is one.
CharCount(s) ==
    Len(s) - Cardinality({ i \in 1..(Len(s) - 1) :
                             s[i] \in HighSurrogates /\ s[i + 1] \in LowSurrogates })

Digits == { DigitChar[i] : i \in 1..Len(DigitChar) }

\* The index of the "]" closing a leading "[digits/digits] ", or 0.
PrefixEnd(seg) ==
    LET ends == { k \in 4..(Len(seg) - 1) :
                    /\ seg[1] = "[" /\ seg[k] = "]" /\ seg[k + 1] = " "
                    /\ \E j \in 3..(k - 2) :
                         /\ seg[j] = "/"
                         /\ \A d \in 2..(j - 1) : seg[d] \in Digits
                         /\ \A d \in (j + 1)..(k - 1) : seg[d] \in Digits }
    IN  IF ends = {} THEN 0 ELSE CHOOSE k \in ends : \A m \in ends : k <= m

\* A segment without its numbering prefix.
StripPrefix(seg) == IF PrefixEnd(seg) = 0 THEN seg ELSE SliceFrom(seg, PrefixEnd(seg) + 1)

RECURSIVE ConcatAll(_)
ConcatAll(segs) ==
    IF Len(segs) = 0 THEN <<>> ELSE ConcatAll(SubSeq(segs, 1, Len(segs) - 1)) \o segs[Len(segs)]

ChunkDone == cout # None
Truncated == HardTruncate(cin.text, cin.options.maxLength)
Content == ConcatAll([i \in 1..Len(cout.segments) |-> StripPrefix(cout.segments[i])])

\* C7 (as claimed): in multi/auto mode, when more than one segment is returned,
\* every segment as sent (numbering prefix included) takes at most 153 GSM-7 slots
\* when the message is GSM-7, and at most 67 characters otherwise.
C7_SegmentsWithinMultiLimit ==
    (ChunkDone /\ cin.options.mode # "single" /\ Len(cout.segments) > 1) =>
        \A i \in 1..Len(cout.segments) :
            IF isGsm7(Truncated)
            THEN gsm7Length(cout.segments[i]) <= GSM7_MULTI_LIMIT
            ELSE CharCount(cout.segments[i]) <= UCS2_MULTI_LIMIT

\* Whether a segment fits one SMS under its own encoding.
FitsOneSms(seg) ==
    IF isGsm7(seg) THEN gsm7Length(seg) <= GSM7_SINGLE_LIMIT
    ELSE CharCount(seg) <= UCS2_SINGLE_LIMIT

\* C8 (as claimed): in single mode chunkSms returns exactly one segment, and that
\* segment fits one SMS under its own encoding (160 GSM-7 slots, 70 UCS-2 characters).
C8_SingleModeFitsOneSms ==
    (ChunkDone /\ cin.options.mode = "single") =>
        /\ Len(cout.segments) = 1
        /\ FitsOneSms(cout.segments[1])

FitsOneSmsInCodeUnits(s) ==
    IF isGsm7(s) THEN gsm7Length(s) <= GSM7_SINGLE_LIMIT
    ELSE Len(s) <= UCS2_SINGLE_LIMIT

C10_TruncatedContentBounded ==
    (ChunkDone /\ Len(cin.text) > cin.options.maxLength) =>
        /\ Len(Content) <= cin.options.maxLength + 1
        /\ Len(Content) > 0
        /\ Content[Len(Content)] = Ellipsis

\* C10 witness: a truncated text split into numbered segments whose content is
\* exactly maxLength + 1 code units.
C10_Witness ==
    /\ ChunkDone
    /\ Len(cin.text) > cin.options.maxLength
    /\ cin.options.segmentNumbering
    /\ Len(cout.segments) > 1
    /\ PrefixEnd(cout.segments[1]) > 0
    /\ Len(Content) = cin.options.maxLength + 1

\* C11: with numbering on and n > 1 segments returned, the k-th segment begins
\* with "[k/n] ", n being the number of segments returned; with numbering off, or
\* when one segment is returned, no segment carries a numbering prefix.
C11_SegmentsNumberedByReturnedCount ==
    ChunkDone =>
        LET n == Len(cout.segments)
        IN  IF cin.options.segmentNumbering /\ n > 1
            THEN \A k \in 1..n :
                   StartsWith(cout.segments[k],
                              <<"[">> \o DecimalString(k) \o <<"/">> \o DecimalString(n)
                                \o <<"]", " ">>)
            ELSE \A k \in 1..n : PrefixEnd(cout.segments[k]) = 0

\* C11 witness: a text that splits in two without numbering is returned as three
\* numbered segments, the last one beginning with "[3/3] ".
C11_Witness ==
    /\ ChunkDone /\ cin.options.segmentNumbering
    /\ Len(cout.segments) = 3
    /\ isGsm7(Truncated) /\ gsm7Length(Truncated) <= 2 * GSM7_MULTI_LIMIT
    /\ StartsWith(cout.segments[3], <<"[", "3", "/", "3", "]", " ">>)

\* C12 (as claimed): a non-GSM-7 text of at most 70 characters, a surrogate pair
\* counting as one character, is returned as exactly one segment.
C12_SeventyCharactersOneSegment ==
    (ChunkDone /\ ~isGsm7(cin.text) /\ CharCount(cin.text) <= UCS2_SINGLE_LIMIT)
        => Len(cout.segments) = 1

\* The candidate segment of an iteration: the longest prefix of the remaining
\* text that fits the limit
Candidate(text, limit, gsm7) ==
    SliceTo(text, IF gsm7 THEN FitCount(text, limit) ELSE limit)

\* The places (1-based) of the spaces and newlines of a candidate whose index
\* (0-based) is not earlier than 30% of its length
LateBoundaries(cand) ==
    { i \in 1..Len(cand) : cand[i] \in {" ", "U+000A"} /\ 10 * (i - 1) >= 3 * Len(cand) }

\* The cut of the claim: after the last late boundary, or the whole candidate
CutAfterLastLateBoundary(cand) ==
    IF LateBoundaries(cand) = {} THEN Len(cand)
    ELSE CHOOSE i \in LateBoundaries(cand) : \A j \in LateBoundaries(cand) : j <= i

\* An iteration that splits: the remaining text does not fit the limit
Splitting ==
    /\ splitPc = "loop" /\ Len(remainingText) > 0
    /\ (IF splitIn.gsm7 THEN gsm7Length(remainingText) ELSE Len(remainingText)) > splitIn.limit

\* The iteration pushes the text before the cut, trimmed, and goes on with the
\* text after it
SplitsAt(cut) ==
    /\ pushed' = Append(pushed, trimEnd(SliceTo(remainingText, cut)))
    /\ remainingText' = trimStart(SliceFrom(remainingText, cut))

\* C25 (as claimed): at each split, the candidate being the longest prefix of the
\* remaining text that fits the limit, the segment is cut right after the last
\* space or newline of the candidate whose position is not earlier than 30% of
\* the candidate's length, and is the whole candidate when there is none.
C25_CutAfterLastLateBoundary ==
    [][Splitting =>
         SplitsAt(CutAfterLastLateBoundary(Candidate(remainingText, splitIn.limit, splitIn.gsm7)))]_vars

\* C26: every iteration of the splitting loop that splits chooses a split index
\* of at least 1 and leaves a strictly shorter remaining text, and a loop that was entered ends.
C26_SplitLoopTerminates ==
    /\ [][Splitting =>
            /\ findSplitPoint(remainingText, splitIn.limit, splitIn.gsm7) >= 1
            /\ Len(remainingText') < Len(remainingText)]_vars
    /\ (splitPc = "loop") ~> (splitPc = "done")

\* C26 witness: a call has returned after at least three iterations.
C26_Witness == splitPc = "done" /\ Len(pushed) >= 3

\* The code units of a text that are not white space, in order.
NonWhiteSpace(s) == SelectSeq(s, LAMBDA c : c \notin WhiteSpace)

\* C27: in multi/auto mode the code units that are not white space, read along the
\* returned segments in order with the numbering prefixes stripped, are those of
\* the hard-truncated text, in the same order.
C27_OnlyWhiteSpaceDropped ==
    (ChunkDone /\ cin.options.mode # "single") =>
        NonWhiteSpace(Content) = NonWhiteSpace(Truncated)

\* C27 witness: a text was split into numbered segments and white space was
\* dropped at a cut.
C27_Witness ==
    /\ ChunkDone /\ cin.options.mode # "single" /\ cin.options.segmentNumbering
    /\ Len(cout.segments) >= 2
    /\ Len(Content) < Len(Truncated)
    /\ NonWhiteSpace(Truncated) # <<>>

\* C28 (as claimed): for a non-empty text no returned segment is the empty string,
\* and no segment carrying a numbering prefix is that prefix alone.
C28_NoEmptySegment ==
    (ChunkDone /\ Len(cin.text) > 0) =>
        \A i \in 1..Len(cout.segments) :
            /\ cout.segments[i] # <<>>
            /\ StripPrefix(cout.segments[i]) # <<>>

(***************************************************************************)
(* URLSearchParams (the application/x-www-form-urlencoded parser) on a     *)
(* body given as a sequence of characters.                                 *)
(***************************************************************************)
\* The characters of code 32..126, in code order.
Printable ==
    << " ", "!", "U+0022", "#", "$", "%", "&", "'", "(", ")", "*", "+", ",",
       "-", ".", "/", "0", "1", "2", "3", "4", "5", "6", "7", "8", "9", ":",
       ";", "<", "=", ">", "?", "@", "A", "B", "C", "D", "E", "F", "G", "H",
       "I", "J", "K", "L", "M", "N", "O", "P", "Q", "R", "S", "T", "U", "V",
       "W", "X", "Y", "Z", "[", "U+005C", "]", "^", "_", "U+0060", "a", "b", "c",
       "d", "e", "f", "g", "h", "i", "j", "k", "l", "m", "n", "o", "p", "q",
       "r", "s", "t", "u", "v", "w", "x", "y", "z", "{", "|", "}", "~" >>

\* The code unit of a character, which String comparison (Array.prototype.sort) uses.
CodeUnit(c) ==
    IF \E i \in 1..Len(Printable) : Printable[i] = c
    THEN 31 + (CHOOSE i \in 1..Len(Printable) : Printable[i] = c)
    ELSE 65533

\* The character a percent-decoded byte becomes under UTF-8 decoding.  A byte of
\* 128 or more that is not part of a well-formed multi-byte sequence decodes to
\* U+FFFD; the bodies of the model never hold a well-formed multi-byte sequence.
ByteChar(b) ==
    IF b >= 32 /\ b <= 126 THEN Printable[b - 31]
    ELSE IF b >= 128 THEN "U+FFFD"
    ELSE "U+0000"

HexValue ==
    [ c \in { "0", "1", "2", "3", "4", "5", "6", "7", "8", "9",
              "A", "B", "C", "D", "E", "F", "a", "b", "c", "d", "e", "f" } |->
        IF c \in { "A", "a" } THEN 10
        ELSE IF c \in { "B", "b" } THEN 11
        ELSE IF c \in { "C", "c" } THEN 12
        ELSE IF c \in { "D", "d" } THEN 13
        ELSE IF c \in { "E", "e" } THEN 14
        ELSE IF c \in { "F", "f" } THEN 15
        ELSE CodeUnit(c) - 48 ]

IsHex(c) == c \in DOMAIN HexValue

\* 1-based index of the first occurrence of c in s, or 0.
IndexOf(s, c) ==
    LET hits == { i \in 1..Len(s) : s[i] = c }
    IN  IF hits = {} THEN 0 ELSE CHOOSE i \in hits : \A j \in hits : i <= j

RECURSIVE SplitOn(_, _)
SplitOn(s, c) ==
    LET i == IndexOf(s, c)
    IN  IF i = 0 THEN <<s>>
        ELSE <<SubSeq(s, 1, i - 1)>> \o SplitOn(SubSeq(s, i + 1, Len(s)), c)

\* "+" becomes a space, then %XX escapes are decoded; a "%" not followed by two
\* hex digits stays as it is.  The two digits of an escape are no "%", so the
\* escapes of a text are the "%" that two hex digits follow.
UrlDecode(s) ==
    LET escapes == { i \in 1..Len(s) :
                       s[i] = "%" /\ i + 2 <= Len(s) /\ IsHex(s[i + 1]) /\ IsHex(s[i + 2]) }
        digits == { i \in 1..Len(s) : i - 1 \in escapes \/ i - 2 \in escapes }
        kept == SelectSeq([i \in 1..Len(s) |-> i], LAMBDA i : i \notin digits)
    IN  [k \in 1..Len(kept) |->
           LET i == kept[k]
           IN  IF i \in escapes THEN ByteChar(16 * HexValue[s[i + 1]] + HexValue[s[i + 2]])
               ELSE IF s[i] = "+" THEN " "
               ELSE s[i]]

\* One name=value pair of the body
UrlPair(piece) ==
    LET i == IndexOf(piece, "=")
    IN  IF i = 0 THEN [name |-> UrlDecode(piece), value |-> <<>>]
        ELSE [name |-> UrlDecode(SubSeq(piece, 1, i - 1)),
              value |-> UrlDecode(SubSeq(piece, i + 1, Len(piece)))]

\* new URLSearchParams(body): the list of pairs, in order; empty pieces are skipped
\* and a leading "?" is dropped.
URLSearchParams(raw) ==
    LET init == IF Len(raw) > 0 /\ raw[1] = "?" THEN SubSeq(raw, 2, Len(raw)) ELSE raw
        pieces == SelectSeq(SplitOn(init, "&"), LAMBDA x : Len(x) > 0)
    IN  [i \in 1..Len(pieces) |-> UrlPair(pieces[i])]

\* params.get(name): the first value of that name, or null
ParamsGet(params, name) ==
    LET hits == { i \in 1..Len(params) : params[i].name = name }
    IN  IF hits = {} THEN None
        ELSE [t |-> "string", s |-> params[CHOOSE i \in hits : \A j \in hits : i <= j].value]

\* [...params.keys()]
ParamsKeys(params) == [i \in 1..Len(params) |-> params[i].name]

\* a < b in the order of String comparison (by code unit)
StringLess(a, b) ==
    LET diff == { i \in 1..Min(Len(a), Len(b)) : a[i] # b[i] }
    IN  IF diff = {} THEN Len(a) < Len(b)
        ELSE LET i == CHOOSE k \in diff : \A j \in diff : k <= j
             IN  CodeUnit(a[i]) < CodeUnit(b[i])

\* Array.prototype.sort() of a list of strings
RECURSIVE SortStrings(_)
SortStrings(seq) ==
    IF Len(seq) <= 1 THEN seq
    ELSE LET rest == SortStrings(SubSeq(seq, 2, Len(seq)))
             x == seq[1]
             before == SelectSeq(rest, LAMBDA y : StringLess(y, x))
             after == SelectSeq(rest, LAMBDA y : ~StringLess(y, x))
         IN  before \o <<x>> \o after



(***************************************************************************)
(* Webhook verification of the adapters.                                   *)
(*                                                                         *)
(* A header value is None (absent), [t |-> "array"] (several values) or a  *)
(* string.  A string that the code only measures and compares is a record: *)
(* kind "text" holds its characters in msg; kind "digest" is the base64 of *)
(* a MAC or signature made with `key` over `msg` by algorithm `alg`,       *)
(* possibly edited afterwards: "ascii" (one character replaced by another  *)
(* ASCII character), "nonascii" (one character replaced by a character of  *)
(* U+0080..U+00FF, as a header byte of 0x80 or more reads), "cut" (the     *)
(* last character removed).  MACs and signatures are taken collision-free: *)
(* two digests are the same string only when made alike.                   *)
(***************************************************************************)
Text(chars) ==
    [t |-> "string", kind |-> "text", alg |-> "", key |-> "", msg |-> chars, edit |-> "none"]
Digest(alg, key, msg) ==
    [t |-> "string", kind |-> "digest", alg |-> alg, key |-> key, msg |-> msg, edit |-> "none"]
Edited(str, edit) == [str EXCEPT !.edit = edit]

\* base64 length of a 20-byte (SHA-1), 32-byte (SHA-256), 64-byte (Ed25519) value
DigestLength == [sha1 |-> 28, sha256 |-> 44, ed25519 |-> 88]

\* String.prototype.length
JsLength(str) ==
    IF str.kind = "text" THEN Len(str.msg)
    ELSE DigestLength[str.alg] - (IF str.edit = "cut" THEN 1 ELSE 0)

\* Buffer.from(str).length: the UTF-8 byte length
Utf8Length(str) == JsLength(str) + (IF str.edit = "nonascii" THEN 1 ELSE 0)

\* !value || typeof value !== "string"
MissingHeader(value) == value.t # "string" \/ JsLength(value) = 0

Header(ctx, name) == IF name \in DOMAIN ctx.headers THEN ctx.headers[name] ELSE None

Returned(ok, reason) == [t |-> "return", ok |-> ok, reason |-> reason]
Thrown(error) == [t |-> "throw", ok |-> FALSE, reason |-> error]

\* String concatenation of parts: an empty part leaves no trace
JoinParts(parts) == SelectSeq(parts, LAMBDA x : x # "")

\* publicUrl + new URL(ctx.url).pathname + new URL(ctx.url).search, or ctx.url;
\* a throw when new URL(ctx.url) throws.  A URL string is the sequence of its
\* parts (origin, path, query), which stand before the characters of a body.
ResolveUrl(publicUrl, url) ==
    IF publicUrl # ""
    THEN IF url.valid
         THEN [t |-> "string", s |-> JoinParts(<<publicUrl, url.pathname, url.search>>)]
         ELSE [t |-> "throw"]
    ELSE [t |-> "string", s |-> url.href]

\* Mutant of SafeCompare: strings of equal length compare equal.
SafeCompareLengthOnly(expected, signature) ==
    IF JsLength(expected) # JsLength(signature) THEN Returned(FALSE, "Signature mismatch")
    ELSE Returned(TRUE, "")

\* The length check and crypto.timingSafeEqual(Buffer.from(expected),
\* Buffer.from(signature)), which throws on buffers of different byte length.
SafeCompare(expected, signature) ==
    IF JsLength(expected) # JsLength(signature) THEN Returned(FALSE, "Signature mismatch")
    ELSE IF Utf8Length(expected) # Utf8Length(signature)
         THEN Thrown("RangeError: Input buffers must have the same byte length")
    ELSE IF expected # signature THEN Returned(FALSE, "Signature mismatch")
    ELSE Returned(TRUE, "")

RECURSIVE KeyValueConcat(_, _)
KeyValueConcat(sortedKeys, params) ==
    IF Len(sortedKeys) = 0 THEN <<>>
    ELSE sortedKeys[1] \o ParamsGet(params, sortedKeys[1]).s
           \o KeyValueConcat(SubSeq(sortedKeys, 2, Len(sortedKeys)), params)

\* The string Twilio signs: the URL, then key + value for each key in sorted order
TwilioSigningString(url, rawBody) ==
    LET params == URLSearchParams(rawBody)
    IN  url \o KeyValueConcat(SortStrings(ParamsKeys(params)), params)

TwilioVerify(opts, ctx) ==
    IF opts.skipSignatureVerification THEN Returned(TRUE, "")
    ELSE LET signature == Header(ctx, "x-twilio-signature")
         IN  IF MissingHeader(signature)
             THEN Returned(FALSE, "Missing X-Twilio-Signature header")
             ELSE LET url == ResolveUrl(opts.publicUrl, ctx.url)
                  IN  IF url.t = "throw" THEN Thrown("TypeError: Invalid URL")
                      ELSE SafeCompare(
                               Digest("sha1", opts.authToken,
                                      TwilioSigningString(url.s, ctx.rawBody)),
                               signature)

PlivoVerify(opts, ctx) ==
    IF opts.skipSignatureVerification THEN Returned(TRUE, "")
    ELSE LET signature == Header(ctx, "x-plivo-signature-v3")
             nonce == Header(ctx, "x-plivo-signature-v3-nonce")
         IN  IF MissingHeader(signature)
             THEN Returned(FALSE, "Missing X-Plivo-Signature-V3 header")
             ELSE IF MissingHeader(nonce)
             THEN Returned(FALSE, "Missing X-Plivo-Signature-V3-Nonce header")
             ELSE LET url == ResolveUrl(opts.publicUrl, ctx.url)
                  IN  IF url.t = "throw" THEN Thrown("TypeError: Invalid URL")
                      ELSE SafeCompare(
                               Digest("sha256", opts.authToken,
                                      url.s \o nonce.msg \o ctx.rawBody),
                               signature)

\* A Number: NaN or an integer
NaN == [t |-> "number", nan |-> TRUE, n |-> 0]
Num(n) == [t |-> "number", nan |-> FALSE, n |-> n]

\* parseInt(chars, 10): leading white space, a sign, then digits; NaN without digits.
RECURSIVE DigitsValue(_, _)
DigitsValue(chars, acc) ==
    IF Len(chars) = 0 \/ chars[1] \notin { DigitChar[i] : i \in 1..Len(DigitChar) } THEN acc
    ELSE DigitsValue(SubSeq(chars, 2, Len(chars)), 10 * acc + (CodeUnit(chars[1]) - 48))

parseInt(chars) ==
    LET t == trimStart(chars)
        neg == Len(t) > 0 /\ t[1] = "-"
        u == IF Len(t) > 0 /\ t[1] \in {"+", "-"} THEN SubSeq(t, 2, Len(t)) ELSE t
    IN  IF Len(u) = 0 \/ u[1] \notin { DigitChar[i] : i \in 1..Len(DigitChar) } THEN NaN
        ELSE IF neg THEN Num(0 - DigitsValue(u, 0)) ELSE Num(DigitsValue(u, 0))

\* Mutant of TimestampTooOld: only timestamps in the past are rejected.
TimestampTooOldPastOnly(now, tsMs) == ~tsMs.nan /\ now - tsMs.n > 5 * 60 * 1000

\* Math.abs(Date.now() - tsMs) > 5 * 60 * 1000; false for a NaN tsMs
TimestampTooOld(now, tsMs) ==
    /\ ~tsMs.nan
    /\ (IF now - tsMs.n >= 0 THEN now - tsMs.n ELSE tsMs.n - now) > 5 * 60 * 1000

\* crypto.verify(null, payload, {key, format: "der", type: "spki"}, signatureBytes):
\* it throws when the key is no SPKI key; otherwise the signature must be the
\* key pair's signature of the payload.
Ed25519Verify(publicKey, payload, signature) ==
    IF publicKey # "spki-key" THEN Thrown("error:1E08010C:DECODER routines::unsupported")
    ELSE Returned(signature = Digest("ed25519", publicKey, payload), "")

TelnyxVerify(opts, ctx, now) ==
    IF opts.skipSignatureVerification THEN Returned(TRUE, "")
    ELSE IF opts.publicKey = ""
    THEN Returned(FALSE, "No Telnyx public key configured for verification")
    ELSE LET signature == Header(ctx, "telnyx-signature-ed25519")
             timestamp == Header(ctx, "telnyx-timestamp")
         IN  IF MissingHeader(signature)
             THEN Returned(FALSE, "Missing telnyx-signature-ed25519 header")
             ELSE IF MissingHeader(timestamp)
             THEN Returned(FALSE, "Missing telnyx-timestamp header")
             ELSE LET secs == parseInt(timestamp.msg)
                      tsMs == IF secs.nan THEN NaN ELSE Num(secs.n * 1000)
                  IN  IF TimestampTooOld(now, tsMs)
                      THEN Returned(FALSE, "Webhook timestamp too old")
                      ELSE LET valid == Ed25519Verify(opts.publicKey,
                                            timestamp.msg \o <<"|">> \o ctx.rawBody,
                                            signature)
                           IN  IF valid.t = "throw"
                               THEN Returned(FALSE, "Verification error")
                               ELSE IF ~valid.ok THEN Returned(FALSE, "Signature mismatch")
                               ELSE Returned(TRUE, "")

MockVerify(ctx) == Returned(TRUE, "")

\* provider.verifyWebhook(ctx) of the adapter `provider`
VerifyWebhook(provider, opts, ctx, now) ==
    CASE provider = "twilio" -> TwilioVerify(opts, ctx)
      [] provider = "plivo" -> PlivoVerify(opts, ctx)
      [] provider = "telnyx" -> TelnyxVerify(opts, ctx, now)
      [] provider = "mock" -> MockVerify(ctx)



(***************************************************************************)
(* SpecVerify: verifyWebhook of each adapter applied to a context.         *)
(*                                                                         *)
(* vin holds the adapter, its options, the context, the clock, and         *)
(* `origin`: how the request was made (whether a key holder signed it,     *)
(* the body that was signed, what was changed afterwards, and the Unix     *)
(* seconds its timestamp header was written from, -1 when it is no plain   *)
(* count of seconds).                                                      *)
(***************************************************************************)
MaxBodyLen == 2
TsSlack == 100

AuthToken == "test_auth_token"
PublicUrl == "https://public.example.com"
SpkiKey == "spki-key"

\* signTwilio(url, body, authToken) of the provider's tests
signTwilio(url, body, authToken) ==
    Digest("sha1", authToken, TwilioSigningString(url, body))

BodyChars == {"b", "B", "2", "%", "=", "&", "+"}
RECURSIVE SeqsUpTo(_, _)
SeqsUpTo(S, n) ==
    IF n = 0 THEN {<<>>}
    ELSE LET shorter == SeqsUpTo(S, n - 1)
         IN  shorter \cup { Append(q, c) : q \in { r \in shorter : Len(r) = n - 1 }, c \in S }
\* every short body, and some longer ones: an escaped name, a repeated name,
\* two names out of order, a name without "="
RawBodies ==
    SeqsUpTo(BodyChars, MaxBodyLen)
      \cup { <<"%", "2", "B", "=", "2">>, <<"b", "=", "2", "&", "b", "=", "B">>,
             <<"b", "=", "+", "&", "B", "=", "%", "2", "b">>, <<"B", "&", "2", "=">> }

Url(origin, pathname, search, valid) ==
    [valid |-> valid, href |-> JoinParts(<<origin, pathname, search>>),
     pathname |-> pathname, search |-> search]
LocalUrl == Url("http://127.0.0.1:3335", "/telephony/webhook", "", TRUE)
Urls ==
    { LocalUrl,
      Url("http://127.0.0.1:3335", "/telephony/webhook", "?a=1", TRUE),
      Url("http://a b", "/telephony/webhook", "", FALSE) }

HeaderNames ==
    { "content-type", "x-twilio-signature", "x-plivo-signature-v3", "x-plivo-signature-v3-nonce",
      "telnyx-signature-ed25519", "telnyx-timestamp" }
Headers(given) ==
    [h \in HeaderNames |-> IF h \in DOMAIN given THEN given[h] ELSE None]

Context(url, headers, rawBody) ==
    [url |-> url, headers |-> headers, rawBody |-> rawBody]
Options(publicUrl, publicKey, skip) ==
    [authToken |-> AuthToken, publicUrl |-> publicUrl, publicKey |-> publicKey,
     skipSignatureVerification |-> skip]
Origin(signed, body, change, ts) ==
    [signed |-> signed, body |-> body, change |-> change, ts |-> ts]

\* The URL the sender of a webhook signs: the public one when there is one
SenderUrl(publicUrl, url) ==
    IF publicUrl # "" THEN JoinParts(<<publicUrl, url.pathname, url.search>>) ELSE url.href

\* Values a signature header can take, around the right signature `good`
SignatureHeaders(good) ==
    { None, [t |-> "array"], Text(<<>>), Text(<<"x">>), good,
      Edited(good, "ascii"), Edited(good, "nonascii"), Edited(good, "cut"),
      [good EXCEPT !.key = "other-key"] }

\* Twilio requests signed by the key holder, then left alone, or changed in one
\* character of the body, or in one character of the signature.
TwilioSignedInputs ==
    LET base(publicUrl, body, sent, signature, change) ==
            [provider |-> "twilio", opts |-> Options(publicUrl, "", FALSE),
             ctx |-> Context(LocalUrl, Headers("x-twilio-signature" :> signature), sent),
             now |-> 1000000, origin |-> Origin(TRUE, body, change, -1)]
        sig(publicUrl, body) == signTwilio(SenderUrl(publicUrl, LocalUrl), body, AuthToken)
    IN  UNION { { base(pu, b, b, sig(pu, b), "none") }
                \cup { base(pu, b, b, Edited(sig(pu, b), e), "signature") :
                         e \in {"ascii", "nonascii"} }
                \cup { base(pu, b, [b EXCEPT ![x[1]] = x[2]], sig(pu, b), "body") :
                         x \in { y \in (1..Len(b)) \X BodyChars : y[2] # b[y[1]] } } :
              pu \in {"", PublicUrl}, b \in RawBodies }

\* Twilio and Plivo contexts of any header, URL and option
HmacInputs ==
    { [provider |-> pr, opts |-> Options(pu, "", skip),
       ctx |-> Context(url,
                 Headers(("x-twilio-signature" :> sg) @@ ("x-plivo-signature-v3" :> sg)
                         @@ ("x-plivo-signature-v3-nonce" :> nonce)),
                 rawBody),
       now |-> 1000000, origin |-> Origin(FALSE, rawBody, "none", -1)] :
        pr \in {"twilio", "plivo"}, pu \in {"", PublicUrl}, skip \in BOOLEAN, url \in Urls,
        sg \in SignatureHeaders(Digest("sha1", AuthToken, <<>>))
               \cup SignatureHeaders(Digest("sha256", AuthToken, <<>>)),
        nonce \in {None, [t |-> "array"], Text(<<>>), Text(<<"n">>)},
        rawBody \in {<<>>, <<"b", "=", "2">>} }

\* Plivo requests signed by the key holder, then left alone or changed in the signature
PlivoSignedInputs ==
    { [provider |-> "plivo", opts |-> Options(pu, "", FALSE),
       ctx |-> Context(LocalUrl,
                 Headers(("x-plivo-signature-v3" :>
                            Edited(Digest("sha256", AuthToken,
                                          SenderUrl(pu, LocalUrl) \o <<"n">> \o rawBody), e))
                         @@ ("x-plivo-signature-v3-nonce" :> Text(<<"n">>))),
                 rawBody),
       now |-> 1000000,
       origin |-> Origin(TRUE, rawBody, IF e = "none" THEN "none" ELSE "signature", -1)] :
        pu \in {"", PublicUrl}, e \in {"none", "ascii", "nonascii", "cut"},
        rawBody \in {<<>>, <<"b", "=", "2">>} }

Clocks == {1000000, 1000001, 1000999}
TimestampSeconds == (1000 - 300 - TsSlack)..(1000 + 300 + TsSlack)

\* Telnyx requests with a timestamp of whole seconds around the clock, signed by
\* the key holder and then left alone or changed in the signature.
TelnyxTimedInputs ==
    { [provider |-> "telnyx", opts |-> Options("", pk, FALSE),
       ctx |-> Context(LocalUrl,
                 Headers(("telnyx-signature-ed25519" :>
                            Edited(Digest("ed25519", SpkiKey,
                                          DecimalString(ts) \o <<"|">> \o <<"{", "}">>), e))
                         @@ ("telnyx-timestamp" :> Text(DecimalString(ts)))),
                 <<"{", "}">>),
       now |-> now,
       origin |-> Origin(TRUE, <<"{", "}">>, IF e = "none" THEN "none" ELSE "signature", ts)] :
        pk \in {SpkiKey, "no-spki"}, e \in {"none", "ascii"}, ts \in TimestampSeconds,
        now \in Clocks }

\* Telnyx contexts of any header and option
TelnyxInputs ==
    { [provider |-> "telnyx", opts |-> Options("", pk, skip),
       ctx |-> Context(LocalUrl,
                 Headers(("telnyx-signature-ed25519" :> sg) @@ ("telnyx-timestamp" :> ts)),
                 <<"{", "}">>),
       now |-> 1000000, origin |-> Origin(FALSE, <<"{", "}">>, "none", -1)] :
        pk \in {"", SpkiKey, "no-spki"}, skip \in BOOLEAN,
        sg \in SignatureHeaders(Digest("ed25519", SpkiKey, <<"1", "0", "0", "0", "|", "{", "}">>)),
        ts \in { None, [t |-> "array"], Text(<<>>), Text(<<"1", "0", "0", "0">>),
                 Text(<<" ", "1", "0", "0", "0", "b">>), Text(<<"6", "9", "9">>),
                 Text(<<"-", "1">>), Text(<<"b">>) } }

MockInputs ==
    { [provider |-> "mock", opts |-> Options("", "", FALSE),
       ctx |-> Context(url, Headers("x-twilio-signature" :> sg), rawBody),
       now |-> 1000000, origin |-> Origin(FALSE, rawBody, "none", -1)] :
        url \in Urls, sg \in {None, Text(<<"x">>)}, rawBody \in {<<>>, <<"{", "}">>} }

VerifyInputs ==
    TwilioSignedInputs \cup HmacInputs \cup PlivoSignedInputs
      \cup TelnyxTimedInputs \cup TelnyxInputs \cup MockInputs

InitVerify ==
    /\ ServerIdle /\ ParseIdle /\ ChunkIdle /\ StatusIdle /\ SendIdle /\ MockIdle /\ LifeIdle /\ SplitIdle /\ RuntimeIdle
    /\ vin \in VerifyInputs
    /\ vout = None

\* provider.verifyWebhook(ctx)
Verify ==
    /\ vin # None /\ vout = None
    /\ vout' = VerifyWebhook(vin.provider, vin.opts, vin.ctx, vin.now)
    /\ UNCHANGED <<serverVars, vin, parseVars, chunkVars, statusVars, sendVars, mockVars,
                   lifeVars, splitVars, runtimeVars>>

NextVerify == Verify

SpecVerify == InitVerify /\ [][NextVerify]_vars



(***************************************************************************)
(* Claims about verifyWebhook, under SpecVerify.                           *)
(***************************************************************************)
VerifyDone == vout # None
ReturnedOk == vout.t = "return" /\ vout.ok
ReturnedNotOk == vout.t = "return" /\ ~vout.ok

\* C2: for every adapter and every context, verifyWebhook returns a result and
\* never throws.
C2_VerifyWebhookNeverThrows == VerifyDone => vout.t = "return"

TwilioSigned ==
    /\ VerifyDone /\ vin.provider = "twilio" /\ vin.origin.signed
    /\ ~vin.opts.skipSignatureVerification

SameSigningString ==
    LET url == SenderUrl(vin.opts.publicUrl, vin.ctx.url)
    IN  TwilioSigningString(url, vin.ctx.rawBody) = TwilioSigningString(url, vin.origin.body)

TelnyxStale ==
    /\ VerifyDone /\ vin.provider = "telnyx"
    /\ ~vin.opts.skipSignatureVerification /\ vin.opts.publicKey # ""
    /\ ~MissingHeader(Header(vin.ctx, "telnyx-signature-ed25519"))
    /\ ~MissingHeader(Header(vin.ctx, "telnyx-timestamp"))
    /\ vin.origin.ts >= 0
    /\ \/ vin.now - vin.origin.ts * 1000 > 300 * 1000
       \/ vin.origin.ts * 1000 - vin.now > 300 * 1000

\* C4: with verification on, a public key configured and both headers present,
\* a timestamp more than 300 seconds from the clock, in the past or in the
\* future, is rejected with "Webhook timestamp too old", whether or not the
\* signature is valid and whether or not the key can be used.
C4_StaleTimestampRejected ==
    TelnyxStale => vout = Returned(FALSE, "Webhook timestamp too old")

C4_Witness ==
    /\ TelnyxStale /\ vin.origin.change = "none" /\ vin.opts.publicKey = SpkiKey
    /\ vin.origin.ts * 1000 > vin.now
    /\ vout = Returned(FALSE, "Webhook timestamp too old")



(***************************************************************************)
(* JavaScript values, as JSON.parse and URLSearchParams.get produce them.  *)
(* A string holds its characters in s; an object holds its members in      *)
(* order as keys and vals.                                                 *)
(***************************************************************************)
JNull == [t |-> "null"]
JBool(b) == [t |-> "boolean", b |-> b]
JStr(chars) == [t |-> "string", s |-> chars]
JArr(items) == [t |-> "array", items |-> items]
JObj(keys, vals) == [t |-> "object", keys |-> keys, vals |-> vals]

Nullish(v) == v.t \in {"null", "undefined"}

\* ToBoolean
Truthy(v) ==
    CASE v.t \in {"null", "undefined"} -> FALSE
      [] v.t = "boolean" -> v.b
      [] v.t = "number" -> ~v.nan /\ v.n # 0
      [] v.t = "string" -> Len(v.s) > 0
      [] OTHER -> TRUE

\* a || b
Or(a, b) == IF Truthy(a) THEN a ELSE b

\* v.key of a value that is neither null nor undefined; of the names the code
\* reads, only "length" is a property of strings and arrays.
Prop(v, key) ==
    CASE v.t = "object" ->
           LET hits == { i \in 1..Len(v.keys) : v.keys[i] = key }
           IN  IF hits = {} THEN None
               ELSE v.vals[CHOOSE i \in hits : \A j \in hits : j <= i]
      [] v.t = "array" -> IF key = <<"l", "e", "n", "g", "t", "h">> THEN Num(Len(v.items)) ELSE None
      [] v.t = "string" -> IF key = <<"l", "e", "n", "g", "t", "h">> THEN Num(Len(v.s)) ELSE None
      [] OTHER -> None

\* v?.key
OptProp(v, key) == IF Nullish(v) THEN None ELSE Prop(v, key)

\* v?.[0]
OptFirst(v) ==
    CASE Nullish(v) -> None
      [] v.t = "array" -> IF Len(v.items) > 0 THEN v.items[1] ELSE None
      [] v.t = "string" -> IF Len(v.s) > 0 THEN JStr(<<v.s[1]>>) ELSE None
      [] v.t = "object" -> Prop(v, <<"0">>)
      [] OTHER -> None

\* String.prototype.toLowerCase, on the printable ASCII characters
LowerChar(c) ==
    IF CodeUnit(c) >= 65 /\ CodeUnit(c) <= 90 THEN Printable[CodeUnit(c) + 32 - 31] ELSE c
toLowerCase(s) == [i \in 1..Len(s) |-> LowerChar(s[i])]

RECURSIVE JoinWith(_, _)
JoinWith(strs, sep) ==
    IF Len(strs) = 0 THEN <<>>
    ELSE IF Len(strs) = 1 THEN strs[1]
    ELSE strs[1] \o sep \o JoinWith(SubSeq(strs, 2, Len(strs)), sep)

\* String(v) of a parsed JSON value
RECURSIVE JsString(_)
JsString(v) ==
    CASE v.t = "string" -> v.s
      [] v.t = "null" -> <<"n", "u", "l", "l">>
      [] v.t = "undefined" -> <<"u", "n", "d", "e", "f", "i", "n", "e", "d">>
      [] v.t = "boolean" -> IF v.b THEN <<"t", "r", "u", "e">> ELSE <<"f", "a", "l", "s", "e">>
      [] v.t = "number" ->
           IF v.n < 0 THEN <<"-">> \o DecimalString(0 - v.n) ELSE DecimalString(v.n)
      [] v.t = "array" ->
           JoinWith([i \in 1..Len(v.items) |->
                       IF Nullish(v.items[i]) THEN <<>> ELSE JsString(v.items[i])], <<",">>)
      [] v.t = "object" -> <<"[", "o", "b", "j", "e", "c", "t", " ", "O", "b", "j", "e", "c", "t", "]">>

\* s.split(",").map((u) => u.trim()).filter(Boolean)
SplitTrimmed(s) ==
    SelectSeq([i \in 1..Len(SplitOn(s, ",")) |-> trimStart(trimEnd(SplitOn(s, ",")[i]))],
              LAMBDA u : Len(u) > 0)


(***************************************************************************)
(* JSON.parse on the characters of a text.  Numbers are whole numbers and  *)
(* the escapes of a string are \" \\ \/ \n \r \t; the bodies of the model  *)
(* hold no fraction, exponent or other escape.  A parsing step returns     *)
(* whether it succeeded, the value, and the index after it.                *)
(***************************************************************************)
JsonWs == {" ", "U+0009", "U+000A", "U+000D"}
Quote == "U+0022"
Backslash == "U+005C"
IsDigit(c) == c \in { DigitChar[i] : i \in 1..Len(DigitChar) }

SkipWs(s, i) ==
    LET stops == { j \in i..Len(s) : s[j] \notin JsonWs }
    IN  IF stops = {} THEN Len(s) + 1 ELSE CHOOSE j \in stops : \A k \in stops : j <= k

ParseFail == [ok |-> FALSE, v |-> None, i |-> 0]
ParseDone(v, i) == [ok |-> TRUE, v |-> v, i |-> i]

MatchAt(s, i, lit) ==
    i + Len(lit) - 1 <= Len(s) /\ SubSeq(s, i, i + Len(lit) - 1) = lit

\* The string whose opening quote is before s[j]; acc holds what was read of it
RECURSIVE ScanString(_, _, _)
ScanString(s, j, acc) ==
    IF j > Len(s) THEN ParseFail
    ELSE IF \E q \in j..Len(s) :
              /\ s[q] = Quote
              /\ \A i \in j..(q - 1) :
                    s[i] \notin {Quote, Backslash, "U+0009", "U+000A", "U+000D"}
         THEN LET q == CHOOSE q \in j..Len(s) :
                         s[q] = Quote /\ \A i \in j..(q - 1) : s[i] # Quote
              IN  ParseDone(JStr(acc \o SubSeq(s, j, q - 1)), q + 1)
    ELSE IF s[j] = Quote THEN ParseDone(JStr(acc), j + 1)
    ELSE IF s[j] \in {"U+0009", "U+000A", "U+000D"} THEN ParseFail
    ELSE IF s[j] = Backslash
         THEN IF j + 1 > Len(s) THEN ParseFail
              ELSE IF s[j + 1] \in {Quote, Backslash, "/"}
                   THEN ScanString(s, j + 2, Append(acc, s[j + 1]))
              ELSE IF s[j + 1] = "n" THEN ScanString(s, j + 2, Append(acc, "U+000A"))
              ELSE IF s[j + 1] = "r" THEN ScanString(s, j + 2, Append(acc, "U+000D"))
              ELSE IF s[j + 1] = "t" THEN ScanString(s, j + 2, Append(acc, "U+0009"))
              ELSE ParseFail
    ELSE ScanString(s, j + 1, Append(acc, s[j]))

ParseNumber(s, i) ==
    LET neg == s[i] = "-"
        d == IF neg THEN i + 1 ELSE i
        stops == { j \in d..Len(s) : ~IsDigit(s[j]) }
        e == IF stops = {} THEN Len(s) + 1 ELSE CHOOSE j \in stops : \A k \in stops : j <= k
        last == IF s[d] = "0" THEN d + 1 ELSE e
    IN  IF d > Len(s) \/ ~IsDigit(s[d]) THEN ParseFail
        ELSE IF last <= Len(s) /\ s[last] \in {".", "e", "E"} THEN ParseFail
        ELSE LET n == DigitsValue(SubSeq(s, d, last - 1), 0)
             IN  ParseDone(Num(IF neg THEN 0 - n ELSE n), last)

RECURSIVE ParseValue(_, _)
RECURSIVE ParseArray(_, _, _)
RECURSIVE ParseArrayNext(_, _, _)
RECURSIVE ParseObject(_, _, _, _)
RECURSIVE ParseObjectValue(_, _, _, _)
RECURSIVE ParseObjectNext(_, _, _, _, _)

ParseValue(s, i0) ==
    LET i == SkipWs(s, i0)
    IN  IF i > Len(s) THEN ParseFail
        ELSE IF s[i] = "{"
             THEN LET k == SkipWs(s, i + 1)
                  IN  IF k <= Len(s) /\ s[k] = "}" THEN ParseDone(JObj(<<>>, <<>>), k + 1)
                      ELSE ParseObject(s, k, <<>>, <<>>)
        ELSE IF s[i] = "["
             THEN LET k == SkipWs(s, i + 1)
                  IN  IF k <= Len(s) /\ s[k] = "]" THEN ParseDone(JArr(<<>>), k + 1)
                      ELSE ParseArray(s, k, <<>>)
        ELSE IF s[i] = Quote THEN ScanString(s, i + 1, <<>>)
        ELSE IF MatchAt(s, i, <<"t", "r", "u", "e">>) THEN ParseDone(JBool(TRUE), i + 4)
        ELSE IF MatchAt(s, i, <<"f", "a", "l", "s", "e">>) THEN ParseDone(JBool(FALSE), i + 5)
        ELSE IF MatchAt(s, i, <<"n", "u", "l", "l">>) THEN ParseDone(JNull, i + 4)
        ELSE IF s[i] = "-" \/ IsDigit(s[i]) THEN ParseNumber(s, i)
        ELSE ParseFail

\* The elements of an array from s[i] on; items holds those read so far
ParseArray(s, i, items) == ParseArrayNext(s, items, ParseValue(s, i))

\* What follows the element r of an array: a comma and more, or the bracket
ParseArrayNext(s, items, r) ==
    LET j == SkipWs(s, r.i)
    IN  IF ~r.ok \/ j > Len(s) THEN ParseFail
        ELSE IF s[j] = "," THEN ParseArray(s, j + 1, Append(items, r.v))
        ELSE IF s[j] = "]" THEN ParseDone(JArr(Append(items, r.v)), j + 1)
        ELSE ParseFail

\* The members of an object from s[i0] on; keys and vals hold those read so far
ParseObject(s, i0, keys, vals) ==
    LET i == SkipWs(s, i0)
    IN  ParseObjectValue(s, keys, vals,
          IF i <= Len(s) /\ s[i] = Quote THEN ScanString(s, i + 1, <<>>) ELSE ParseFail)

\* The colon and the value that follow the key k of a member
ParseObjectValue(s, keys, vals, k) ==
    LET c == SkipWs(s, k.i)
    IN  IF k.ok /\ c <= Len(s) /\ s[c] = ":"
        THEN ParseObjectNext(s, keys, vals, k.v.s, ParseValue(s, c + 1))
        ELSE ParseFail

\* What follows the value r of the member `key`: a comma and more, or the brace
ParseObjectNext(s, keys, vals, key, r) ==
    LET j == SkipWs(s, r.i)
    IN  IF ~r.ok \/ j > Len(s) THEN ParseFail
        ELSE IF s[j] = "," THEN ParseObject(s, j + 1, Append(keys, key), Append(vals, r.v))
        ELSE IF s[j] = "}" THEN ParseDone(JObj(Append(keys, key), Append(vals, r.v)), j + 1)
        ELSE ParseFail

\* The value r read from the start of text is the result when only white space
\* follows it
JSONResult(text, r) ==
    IF r.ok /\ SkipWs(text, r.i) > Len(text) THEN [t |-> "value", v |-> r.v]
    ELSE [t |-> "throw", v |-> None]

\* JSON.parse(text): the value, or a throw of SyntaxError
JSONParse(text) == JSONResult(text, ParseValue(text, 1))

\* JSON.stringify of a value
RECURSIVE Stringify(_)
Stringify(v) ==
    CASE v.t = "null" -> <<"n", "u", "l", "l">>
      [] v.t = "boolean" -> IF v.b THEN <<"t", "r", "u", "e">> ELSE <<"f", "a", "l", "s", "e">>
      [] v.t = "number" ->
           IF v.n < 0 THEN <<"-">> \o DecimalString(0 - v.n) ELSE DecimalString(v.n)
      [] v.t = "string" -> <<Quote>> \o v.s \o <<Quote>>
      [] v.t = "array" ->
           <<"[">> \o JoinWith([i \in 1..Len(v.items) |-> Stringify(v.items[i])], <<",">>)
             \o <<"]">>
      [] v.t = "object" ->
           <<"{">> \o JoinWith([i \in 1..Len(v.keys) |->
                                  <<Quote>> \o v.keys[i] \o <<Quote, ":">>
                                    \o Stringify(v.vals[i])], <<",">>)
             \o <<"}">>


(***************************************************************************)
(* parseInboundSms of the adapters.  A result is what the call returned,   *)
(* or the error it threw.  responseHeaders is a list of name/value pairs,  *)
(* empty when the result has none.                                         *)
(***************************************************************************)
ParseResult(events, statusCode, responseBody, responseHeaders) ==
    [t |-> "return", events |-> events, statusCode |-> statusCode,
     responseBody |-> responseBody, responseHeaders |-> responseHeaders]
ParseThrown(error) == [t |-> "throw", error |-> error]

XmlHeaders == << [name |-> "Content-Type", value |-> "application/xml"] >>
EmptyTwiml == "<Response></Response>"

mapTelnyxStatus(eventType) ==
    CASE eventType = <<"m", "e", "s", "s", "a", "g", "e", ".", "s", "e", "n", "t">> -> "sent"
      [] eventType = <<"m", "e", "s", "s", "a", "g", "e", ".", "d", "e", "l", "i", "v", "e", "r", "e", "d">> -> "delivered"
      [] eventType = <<"m", "e", "s", "s", "a", "g", "e", ".", "f", "a", "i", "l", "e", "d">> -> "failed"
      [] OTHER -> "unknown"

\* for (const m of media) { if (m.url) mediaUrls.push(m.url) } under
\* media?.length: the urls collected, or the TypeError of iterating an object or
\* of reading url of null.
TelnyxMediaUrls(media) ==
    IF ~Truthy(OptProp(media, <<"l", "e", "n", "g", "t", "h">>)) THEN [t |-> "value", urls |-> <<>>]
    ELSE IF media.t = "object"
    THEN ParseThrown("TypeError: messagePayload.media is not iterable")
    ELSE LET ms == IF media.t = "array" THEN media.items
                   ELSE [i \in 1..Len(media.s) |-> JStr(<<media.s[i]>>)]
         IN  IF \E i \in 1..Len(ms) : Nullish(ms[i])
             THEN ParseThrown("TypeError: Cannot read properties of null (reading 'url')")
             ELSE [t |-> "value",
                   urls |-> LET all == [i \in 1..Len(ms) |-> Prop(ms[i], <<"u", "r", "l">>)]
                            IN  SelectSeq(all, Truthy)]

TelnyxDeliveryStatus(data, now) ==
    LET messagePayload == Prop(data, <<"p", "a", "y", "l", "o", "a", "d">>)
        firstError == OptFirst(OptProp(messagePayload, <<"e", "r", "r", "o", "r", "s">>))
    IN  [type |-> "delivery_status",
         messageId |-> Or(OptProp(messagePayload, <<"i", "d">>), Or(Prop(data, <<"i", "d">>), JStr(<<>>))),
         status |-> mapTelnyxStatus(Prop(data, <<"e", "v", "e", "n", "t", "_", "t", "y", "p", "e">>).s),
         errorCode |-> OptProp(firstError, <<"c", "o", "d", "e">>),
         errorMessage |-> OptProp(firstError, <<"t", "i", "t", "l", "e">>),
         timestamp |-> now]

TelnyxInbound(data, now) ==
    LET messagePayload == Prop(data, <<"p", "a", "y", "l", "o", "a", "d">>)
        media == TelnyxMediaUrls(Prop(messagePayload, <<"m", "e", "d", "i", "a">>))
    IN  IF ~Truthy(messagePayload) THEN ParseResult(<<>>, 200, "", <<>>)
        ELSE IF media.t = "throw" THEN media
        ELSE ParseResult(
               << [type |-> "inbound_sms",
                   messageId |-> Or(Prop(data, <<"i", "d">>),
                                    Or(Prop(messagePayload, <<"i", "d">>), JStr(<<>>))),
                   from |-> Or(OptProp(Prop(messagePayload, <<"f", "r", "o", "m">>), <<"p", "h", "o", "n", "e", "_", "n", "u", "m", "b", "e", "r">>),
                               JStr(<<>>)),
                   to |-> Or(OptProp(OptFirst(Prop(messagePayload, <<"t", "o">>)), <<"p", "h", "o", "n", "e", "_", "n", "u", "m", "b", "e", "r">>),
                             JStr(<<>>)),
                   body |-> Or(Prop(messagePayload, <<"t", "e", "x", "t">>), JStr(<<>>)),
                   timestamp |-> now,
                   mediaUrls |-> IF Len(media.urls) > 0 THEN JArr(media.urls) ELSE None] >>,
               200, "", <<>>)

\* The event of payload.data
TelnyxEvent(data, now) ==
    IF ~Truthy(data) THEN ParseResult(<<>>, 200, "", <<>>)
    ELSE IF Prop(data, <<"e", "v", "e", "n", "t", "_", "t", "y", "p", "e">>) \in { JStr(<<"m", "e", "s", "s", "a", "g", "e", ".", "s", "e", "n", "t">>), JStr(<<"m", "e", "s", "s", "a", "g", "e", ".", "d", "e", "l", "i", "v", "e", "r", "e", "d">>),
                            JStr(<<"m", "e", "s", "s", "a", "g", "e", ".", "f", "a", "i", "l", "e", "d">>) }
    THEN ParseResult(<<TelnyxDeliveryStatus(data, now)>>, 200, "", <<>>)
    ELSE IF Prop(data, <<"e", "v", "e", "n", "t", "_", "t", "y", "p", "e">>) = JStr(<<"m", "e", "s", "s", "a", "g", "e", ".", "r", "e", "c", "e", "i", "v", "e", "d">>) THEN TelnyxInbound(data, now)
    ELSE ParseResult(<<>>, 200, "", <<>>)

\* After JSON.parse: the read of payload.data
TelnyxParsed(parsed, now) ==
    IF parsed.t = "throw" THEN ParseResult(<<>>, 400, "Invalid JSON", <<>>)
    ELSE IF Nullish(parsed.v)
    THEN ParseThrown("TypeError: Cannot read properties of null (reading 'data')")
    ELSE TelnyxEvent(Prop(parsed.v, <<"d", "a", "t", "a">>), now)

TelnyxParse(ctx, now) == TelnyxParsed(JSONParse(ctx.rawBody), now)

\* After JSON.parse, whose throw is caught
MockParsed(parsed, now) ==
    IF parsed.t = "throw" \/ Nullish(parsed.v) THEN ParseResult(<<>>, 200, "OK", <<>>)
    ELSE ParseResult(
           << [type |-> "inbound_sms",
               messageId |-> Or(Prop(parsed.v, <<"m", "e", "s", "s", "a", "g", "e", "I", "d">>),
                                JStr(<<"m", "o", "c", "k", "-">> \o DecimalString(now))),
               from |-> Or(Prop(parsed.v, <<"f", "r", "o", "m">>), JStr(<<"+", "1", "5", "5", "5", "0", "0", "0", "0", "0", "0", "0">>)),
               to |-> Or(Prop(parsed.v, <<"t", "o">>), JStr(<<"+", "1", "5", "5", "5", "0", "0", "0", "0", "0", "0", "1">>)),
               body |-> Or(Prop(parsed.v, <<"b", "o", "d", "y">>), Or(Prop(parsed.v, <<"t", "e", "x", "t">>), JStr(<<>>))),
               timestamp |-> now] >>,
           200, "OK", <<>>)

MockParse(ctx, now) == MockParsed(JSONParse(ctx.rawBody), now)


\* String.prototype.includes
Includes(s, sub) == \E i \in 1..(Len(s) + 1) : MatchAt(s, i, sub)

mapPlivoStatus(status) ==
    LET lower == toLowerCase(status)
    IN  CASE lower = <<"q", "u", "e", "u", "e", "d">> -> "queued"
          [] lower = <<"s", "e", "n", "t">> -> "sent"
          [] lower = <<"d", "e", "l", "i", "v", "e", "r", "e", "d">> -> "delivered"
          [] lower = <<"u", "n", "d", "e", "l", "i", "v", "e", "r", "e", "d">> -> "undelivered"
          [] lower \in {<<"f", "a", "i", "l", "e", "d">>, <<"r", "e", "j", "e", "c", "t", "e", "d">>} -> "failed"
          [] OTHER -> "unknown"

\* The fields of a Plivo JSON body; t is "throw" when JSON.parse or a property
\* read of the parsed value throws.
PlivoJsonFields(parsed) ==
    IF parsed.t = "throw" \/ Nullish(parsed.v)
    THEN [t |-> "throw"]
    ELSE [t |-> "value",
          from |-> Or(Prop(parsed.v, <<"F", "r", "o", "m">>), JStr(<<>>)),
          to |-> Or(Prop(parsed.v, <<"T", "o">>), JStr(<<>>)),
          text |-> Or(Prop(parsed.v, <<"T", "e", "x", "t">>), JStr(<<>>)),
          messageUuid |-> Or(Prop(parsed.v, <<"M", "e", "s", "s", "a", "g", "e", "U", "U", "I", "D">>), JStr(<<>>)),
          messageType |-> Prop(parsed.v, <<"T", "y", "p", "e">>),
          status |-> Or(Prop(parsed.v, <<"S", "t", "a", "t", "u", "s">>), JStr(<<"u", "n", "k", "n", "o", "w", "n">>)),
          mediaUrls |-> IF Truthy(Prop(parsed.v, <<"M", "e", "d", "i", "a", "U", "r", "l", "s">>))
                        THEN SplitTrimmed(JsString(Prop(parsed.v, <<"M", "e", "d", "i", "a", "U", "r", "l", "s">>)))
                        ELSE <<>>]

\* The fields of a Plivo form-encoded body
PlivoFormFields(params) ==
    [t |-> "value",
     from |-> Or(ParamsGet(params, <<"F", "r", "o", "m">>), JStr(<<>>)),
     to |-> Or(ParamsGet(params, <<"T", "o">>), JStr(<<>>)),
     text |-> Or(ParamsGet(params, <<"T", "e", "x", "t">>), JStr(<<>>)),
     messageUuid |-> Or(ParamsGet(params, <<"M", "e", "s", "s", "a", "g", "e", "U", "U", "I", "D">>), JStr(<<>>)),
     messageType |-> Or(ParamsGet(params, <<"T", "y", "p", "e">>), None),
     status |-> Or(ParamsGet(params, <<"S", "t", "a", "t", "u", "s">>), JStr(<<"u", "n", "k", "n", "o", "w", "n">>)),
     mediaUrls |-> IF Truthy(ParamsGet(params, <<"M", "e", "d", "i", "a", "U", "r", "l", "s">>))
                   THEN SplitTrimmed(ParamsGet(params, <<"M", "e", "d", "i", "a", "U", "r", "l", "s">>).s)
                   ELSE <<>>]

PlivoFields(isJson, rawBody) ==
    IF isJson THEN PlivoJsonFields(JSONParse(rawBody))
    ELSE PlivoFormFields(URLSearchParams(rawBody))

\* The event of the fields f of a body
PlivoEvent(f, now) ==
    IF f.t = "throw" THEN ParseResult(<<>>, 400, "Invalid JSON", <<>>)
    ELSE IF f.messageType = JStr(<<"d", "l", "r">>) \/ (~Truthy(f.text) /\ Truthy(f.messageUuid))
    THEN IF f.status.t # "string"
         THEN ParseThrown("TypeError: status.toLowerCase is not a function")
         ELSE ParseResult(
                << [type |-> "delivery_status", messageId |-> f.messageUuid,
                    status |-> mapPlivoStatus(f.status.s), timestamp |-> now] >>,
                200, EmptyTwiml, XmlHeaders)
    ELSE IF ~Truthy(f.messageUuid) /\ ~Truthy(f.text)
    THEN ParseResult(<<>>, 200, EmptyTwiml, <<>>)
    ELSE ParseResult(
           << [type |-> "inbound_sms",
               messageId |-> Or(f.messageUuid, JStr(<<"p", "l", "i", "v", "o", "-">> \o DecimalString(now))),
               from |-> f.from, to |-> f.to, body |-> f.text, timestamp |-> now,
               mediaUrls |-> IF Len(f.mediaUrls) > 0
                             THEN JArr([i \in 1..Len(f.mediaUrls) |-> JStr(f.mediaUrls[i])])
                             ELSE None] >>,
           200, EmptyTwiml, XmlHeaders)

PlivoParse(ctx, now) ==
    PlivoEvent(PlivoFields(Includes(Or(Header(ctx, "content-type"), JStr(<<>>)).s,
                                    <<"a", "p", "p", "l", "i", "c", "a", "t", "i", "o", "n", "/", "j", "s", "o", "n">>),
                           ctx.rawBody),
               now)

mapTwilioStatus(status) ==
    LET lower == toLowerCase(status)
    IN  CASE lower \in {<<"q", "u", "e", "u", "e", "d">>, <<"a", "c", "c", "e", "p", "t", "e", "d">>} -> "queued"
          [] lower = <<"s", "e", "n", "d", "i", "n", "g">> -> "sending"
          [] lower = <<"s", "e", "n", "t">> -> "sent"
          [] lower = <<"d", "e", "l", "i", "v", "e", "r", "e", "d">> -> "delivered"
          [] lower = <<"u", "n", "d", "e", "l", "i", "v", "e", "r", "e", "d">> -> "undelivered"
          [] lower = <<"f", "a", "i", "l", "e", "d">> -> "failed"
          [] OTHER -> "unknown"

\* The MediaUrl0 .. MediaUrl(numMedia - 1) parameters that are present and not empty
TwilioMediaUrls(params, numMedia) ==
    IF numMedia.nan \/ numMedia.n <= 0 THEN <<>>
    ELSE SelectSeq([i \in 1..numMedia.n |->
                      ParamsGet(params, <<"M", "e", "d", "i", "a", "U", "r", "l">> \o DecimalString(i - 1))], Truthy)

\* Mutant of TwilioIsDeliveryStatus: a Body does not keep a callback from being
\* a delivery status.
TwilioIsDeliveryStatusAnyBody(messageStatus, body, messageSid) ==
    Truthy(messageStatus) /\ Truthy(messageSid)

\* messageStatus && !body && messageSid
TwilioIsDeliveryStatus(messageStatus, body, messageSid) ==
    Truthy(messageStatus) /\ ~Truthy(body) /\ Truthy(messageSid)

\* The event of the parameters of a body
TwilioEvent(params, now) ==
    LET messageSid == Or(ParamsGet(params, <<"M", "e", "s", "s", "a", "g", "e", "S", "i", "d">>), ParamsGet(params, <<"S", "m", "s", "S", "i", "d">>))
        from == Or(ParamsGet(params, <<"F", "r", "o", "m">>), JStr(<<>>))
        to == Or(ParamsGet(params, <<"T", "o">>), JStr(<<>>))
        body == Or(ParamsGet(params, <<"B", "o", "d", "y">>), JStr(<<>>))
        messageStatus ==
            Or(ParamsGet(params, <<"M", "e", "s", "s", "a", "g", "e", "S", "t", "a", "t", "u", "s">>), ParamsGet(params, <<"S", "m", "s", "S", "t", "a", "t", "u", "s">>))
        numSegments == ParamsGet(params, <<"N", "u", "m", "S", "e", "g", "m", "e", "n", "t", "s">>)
        mediaUrls ==
            TwilioMediaUrls(params, parseInt(Or(ParamsGet(params, <<"N", "u", "m", "M", "e", "d", "i", "a">>), JStr(<<"0">>)).s))
    IN  IF TwilioIsDeliveryStatus(messageStatus, body, messageSid)
        THEN ParseResult(
               << [type |-> "delivery_status", messageId |-> messageSid,
                   status |-> mapTwilioStatus(messageStatus.s),
                   errorCode |-> Or(ParamsGet(params, <<"E", "r", "r", "o", "r", "C", "o", "d", "e">>), None),
                   errorMessage |-> Or(ParamsGet(params, <<"E", "r", "r", "o", "r", "M", "e", "s", "s", "a", "g", "e">>), None),
                   timestamp |-> now] >>,
               200, EmptyTwiml, XmlHeaders)
        ELSE IF ~Truthy(messageSid) THEN ParseResult(<<>>, 200, EmptyTwiml, <<>>)
        ELSE ParseResult(
               << [type |-> "inbound_sms", messageId |-> messageSid,
                   from |-> from, to |-> to, body |-> body, timestamp |-> now,
                   mediaUrls |-> IF Len(mediaUrls) > 0 THEN JArr(mediaUrls) ELSE None,
                   numSegments |-> IF Truthy(numSegments) THEN parseInt(numSegments.s)
                                   ELSE None] >>,
               200, EmptyTwiml, XmlHeaders)

TwilioParse(ctx, now) == TwilioEvent(URLSearchParams(ctx.rawBody), now)

\* provider.parseInboundSms(ctx) of the adapter `provider`
ParseInboundSms(provider, ctx, now) ==
    CASE provider = "twilio" -> TwilioParse(ctx, now)
      [] provider = "plivo" -> PlivoParse(ctx, now)
      [] provider = "telnyx" -> TelnyxParse(ctx, now)
      [] provider = "mock" -> MockParse(ctx, now)


(***************************************************************************)
(* SpecParse: parseInboundSms of each adapter applied to a raw body: JSON  *)
(* texts of many shapes, cut-off JSON texts, and form-encoded bodies.      *)
(***************************************************************************)
MaxCut == 12
\* The most milliseconds between two parses of one context.
MaxElapsed == 1

Obj1(k, v) == JObj(<<k>>, <<v>>)

\* Values of every JSON type, among them what an adapter does not expect
GenericValues ==
    { JNull, JBool(TRUE), JBool(FALSE), Num(0), Num(5), JStr(<<>>), JStr(<<"x">>),
      JArr(<<>>), JArr(<<JNull>>), JObj(<<>>, <<>>), Obj1(<<"l", "e", "n", "g", "t", "h">>, Num(1)) }

TelnyxMediaValues ==
    GenericValues
      \cup { JArr(<<Obj1(<<"u", "r", "l">>, JStr(<<"h", "t", "t", "p", "s", ":", "/", "/", "m", "/", "0">>))>>),
             JArr(<<Obj1(<<"u", "r", "l">>, JStr(<<"h", "t", "t", "p", "s", ":", "/", "/", "m", "/", "0">>)), JNull>>),
             JArr(<<Obj1(<<"u", "r", "l">>, JStr(<<>>)), Num(5)>>), JStr(<<"a", "b">>) }

TelnyxPayloads ==
    GenericValues
      \cup { JObj(<<<<"i", "d">>, <<"t", "e", "x", "t">>, <<"f", "r", "o", "m">>, <<"t", "o">>, <<"m", "e", "d", "i", "a">>>>,
                  <<JStr(<<"p", "1">>), JStr(<<"h", "i">>), Obj1(<<"p", "h", "o", "n", "e", "_", "n", "u", "m", "b", "e", "r">>, JStr(<<"+", "1", "5", "5", "5">>)),
                    JArr(<<Obj1(<<"p", "h", "o", "n", "e", "_", "n", "u", "m", "b", "e", "r">>, JStr(<<"+", "1", "6", "6", "6">>))>>), m>>) :
               m \in TelnyxMediaValues }
      \cup { JObj(<<<<"i", "d">>, <<"t", "e", "x", "t">>, <<"f", "r", "o", "m">>, <<"t", "o">>, <<"e", "r", "r", "o", "r", "s">>>>, <<g, g, g, g, g>>) :
               g \in GenericValues }
      \cup { Obj1(<<"e", "r", "r", "o", "r", "s">>, JArr(<<JObj(<<<<"c", "o", "d", "e">>, <<"t", "i", "t", "l", "e">>>>,
                                         <<JStr(<<"4", "0", "0", "0", "1">>), JStr(<<"b", "a", "d">>)>>)>>)) }

TelnyxValues ==
    { Obj1(<<"d", "a", "t", "a">>, d) : d \in GenericValues }
      \cup { Obj1(<<"d", "a", "t", "a">>, JObj(<<<<"e", "v", "e", "n", "t", "_", "t", "y", "p", "e">>, <<"i", "d">>, <<"p", "a", "y", "l", "o", "a", "d">>>>, <<et, id, p>>)) :
               et \in { JStr(<<"m", "e", "s", "s", "a", "g", "e", ".", "r", "e", "c", "e", "i", "v", "e", "d">>), JStr(<<"m", "e", "s", "s", "a", "g", "e", ".", "s", "e", "n", "t">>),
                        JStr(<<"m", "e", "s", "s", "a", "g", "e", ".", "d", "e", "l", "i", "v", "e", "r", "e", "d">>), JStr(<<"m", "e", "s", "s", "a", "g", "e", ".", "f", "a", "i", "l", "e", "d">>),
                        JStr(<<"m", "e", "s", "s", "a", "g", "e", ".", "f", "i", "n", "a", "l", "i", "z", "e", "d">>) },
               id \in { JNull, JStr(<<"m", "1">>) },
               p \in TelnyxPayloads }

PlivoValues ==
    { JObj(<<<<"F", "r", "o", "m">>, <<"T", "o">>, <<"T", "y", "p", "e">>, <<"S", "t", "a", "t", "u", "s">>, <<"T", "e", "x", "t">>, <<"M", "e", "s", "s", "a", "g", "e", "U", "U", "I", "D">>, <<"M", "e", "d", "i", "a", "U", "r", "l", "s">>>>,
           <<JStr(<<"+", "1", "5", "5", "5">>), JStr(<<"+", "1", "6", "6", "6">>), ty, st, tx, id, mu>>) :
        ty \in { JNull, JStr(<<"d", "l", "r">>), JStr(<<"s", "m", "s">>) },
        st \in { JNull, JStr(<<"D", "e", "l", "i", "v", "e", "r", "e", "d">>), Num(5), JBool(TRUE), JArr(<<>>) },
        tx \in { JStr(<<>>), JStr(<<"h", "i">>), Num(7) },
        id \in { JNull, JStr(<<"u", "1">>) },
        mu \in { JNull, JStr(<<"a", ",", " ", "b", ",", ",">>), JArr(<<JStr(<<"a">>), JNull>>), JObj(<<>>, <<>>) } }

MockValues ==
    { JObj(<<<<"m", "e", "s", "s", "a", "g", "e", "I", "d">>, <<"f", "r", "o", "m">>, <<"b", "o", "d", "y">>, <<"t", "e", "x", "t">>>>, <<id, g, b, JStr(<<"t">>)>>) :
        id \in { JNull, JStr(<<"m", "1">>) }, g \in GenericValues, b \in { JNull, JStr(<<"h", "i">>) } }

JsonBodies ==
    { Stringify(v) : v \in GenericValues \cup TelnyxValues \cup PlivoValues \cup MockValues }

\* Texts that are no JSON: the beginnings of a JSON text, and a few others
SampleText ==
    Stringify(Obj1(<<"d", "a", "t", "a">>, JObj(<<<<"i", "d">>>>, <<JArr(<<Num(-1)>>)>>)))
MalformedBodies ==
    { SubSeq(SampleText, 1, n) : n \in 0..Min(MaxCut, Len(SampleText) - 1) }
      \cup { <<"{", "'", "a", "'", ":", "1", "}">>, <<"[", "1", ",", "]">>, <<"0", "1">>, <<"n", "u", "l">>, <<"{", "}", " ", "x">>, <<"U+FFFD">> }

\* name=value&... of the pairs whose value is present
FormBody(pairs) ==
    LET present == SelectSeq(pairs, LAMBDA p : p[2] # None)
    IN  JoinWith([i \in 1..Len(present) |-> present[i][1] \o <<"=">> \o present[i][2].s],
                 <<"&">>)

TwilioFormBodies ==
    { FormBody(<< <<<<"M", "e", "s", "s", "a", "g", "e", "S", "i", "d">>, sid>>, <<<<"S", "m", "s", "S", "i", "d">>, sms>>, <<<<"B", "o", "d", "y">>, b>>,
                  <<<<"M", "e", "s", "s", "a", "g", "e", "S", "t", "a", "t", "u", "s">>, st>>, <<<<"N", "u", "m", "M", "e", "d", "i", "a">>, nm>>,
                  <<<<"M", "e", "d", "i", "a", "U", "r", "l", "0">>, mu>>, <<<<"N", "u", "m", "S", "e", "g", "m", "e", "n", "t", "s">>, ns>> >>) :
        sid \in { None, JStr(<<"S", "M", "1">>) }, sms \in { None, JStr(<<"S", "M", "2">>) },
        b \in { None, JStr(<<>>), JStr(<<"h", "i", "+", "t", "h", "e", "r", "e">>) },
        st \in { None, JStr(<<"d", "e", "l", "i", "v", "e", "r", "e", "d">>), JStr(<<"W", "e", "i", "r", "d">>) },
        nm \in { None, JStr(<<"0">>), JStr(<<"2">>), JStr(<<"x">>) },
        mu \in { None, JStr(<<"h", "t", "t", "p", "s", "%", "3", "A", "%", "2", "F", "%", "2", "F", "m", "%", "2", "F", "0">>) },
        ns \in { None, JStr(<<"2">>) } }

\* Bodies around the classification of a Twilio callback: each of the five
\* parameters absent, empty or set
TwilioStatusBodies ==
    { FormBody(<< <<<<"M", "e", "s", "s", "a", "g", "e", "S", "i", "d">>, sid>>, <<<<"S", "m", "s", "S", "i", "d">>, sms>>, <<<<"B", "o", "d", "y">>, b>>,
                  <<<<"M", "e", "s", "s", "a", "g", "e", "S", "t", "a", "t", "u", "s">>, st>>, <<<<"S", "m", "s", "S", "t", "a", "t", "u", "s">>, ss>> >>) :
        sid \in { None, JStr(<<>>), JStr(<<"S", "M", "1">>) }, sms \in { None, JStr(<<"S", "M", "2">>) },
        b \in { None, JStr(<<>>), JStr(<<"h", "i">>) },
        st \in { None, JStr(<<>>), JStr(<<"d", "e", "l", "i", "v", "e", "r", "e", "d">>) }, ss \in { None, JStr(<<"s", "e", "n", "t">>) } }

PlivoFormBodies ==
    { FormBody(<< <<<<"T", "y", "p", "e">>, ty>>, <<<<"S", "t", "a", "t", "u", "s">>, st>>, <<<<"T", "e", "x", "t">>, tx>>,
                  <<<<"M", "e", "s", "s", "a", "g", "e", "U", "U", "I", "D">>, id>>, <<<<"M", "e", "d", "i", "a", "U", "r", "l", "s">>, mu>> >>) :
        ty \in { None, JStr(<<"d", "l", "r">>) }, st \in { None, JStr(<<"S", "e", "n", "t">>) },
        tx \in { None, JStr(<<"h", "i">>) }, id \in { None, JStr(<<"u", "1">>) },
        mu \in { None, JStr(<<"a", ",", "+", "b">>) } }

ParseBodies ==
    JsonBodies \cup MalformedBodies \cup TwilioFormBodies \cup TwilioStatusBodies
      \cup PlivoFormBodies

ContentTypes ==
    { None, JStr(<<"a", "p", "p", "l", "i", "c", "a", "t", "i", "o", "n", "/", "j", "s", "o", "n">>), JStr(<<"a", "p", "p", "l", "i", "c", "a", "t", "i", "o", "n", "/", "j", "s", "o", "n", ";", " ", "c", "h", "a", "r", "s", "e", "t", "=", "u", "t", "f", "-", "8">>),
      JStr(<<"a", "p", "p", "l", "i", "c", "a", "t", "i", "o", "n", "/", "x", "-", "w", "w", "w", "-", "f", "o", "r", "m", "-", "u", "r", "l", "e", "n", "c", "o", "d", "e", "d">>) }

ParseInputs ==
    { [provider |-> pr, ctx |-> Context(LocalUrl, Headers("content-type" :> ct), rawBody),
       now |-> 1000000] :
        pr \in {"twilio", "telnyx", "mock"}, ct \in {JStr(<<"a", "p", "p", "l", "i", "c", "a", "t", "i", "o", "n", "/", "j", "s", "o", "n">>)},
        rawBody \in ParseBodies }
      \cup { [provider |-> "plivo",
              ctx |-> Context(LocalUrl, Headers("content-type" :> ct), rawBody),
              now |-> 1000000] :
               ct \in ContentTypes, rawBody \in ParseBodies }

InitParse ==
    /\ ServerIdle /\ VerifyIdle /\ ChunkIdle /\ StatusIdle /\ SendIdle /\ MockIdle /\ LifeIdle /\ SplitIdle /\ RuntimeIdle
    /\ pin \in ParseInputs
    /\ pout = None /\ pagain = None

\* provider.parseInboundSms(ctx)
Parse ==
    /\ pin # None /\ pout = None
    /\ pout' = ParseInboundSms(pin.provider, pin.ctx, pin.now)
    /\ UNCHANGED <<serverVars, verifyVars, pin, pagain, chunkVars, statusVars, sendVars,
                   mockVars, lifeVars, splitVars, runtimeVars>>

\* provider.parseInboundSms(ctx) once more on the same context, Date.now()
\* having advanced by up to MaxElapsed milliseconds
Reparse ==
    /\ pout # None /\ pagain = None
    /\ \E elapsed \in 0..MaxElapsed :
         pagain' = ParseInboundSms(pin.provider, pin.ctx, pin.now + elapsed)
    /\ UNCHANGED <<serverVars, verifyVars, pin, pout, chunkVars, statusVars, sendVars,
                   mockVars, lifeVars, splitVars, runtimeVars>>

NextParse == Parse \/ Reparse

SpecParse == InitParse /\ [][NextParse]_vars

(***************************************************************************)
(* Claims about parseInboundSms, under SpecParse.                          *)
(***************************************************************************)
ParseCalled == pout # None

\* C5: for every adapter and every raw body, parseInboundSms returns a result
\* and never throws.
C5_ParseInboundSmsNeverThrows == ParseCalled => pout.t = "return"

\* C13 (as claimed): parsing the same WebhookContext twice, at any two points in
\* time, yields identical results: same events with the same field values
\* (messageId and timestamp included), same statusCode, body and headers.
C13_ReparseYieldsIdenticalResult == pagain # None => pagain = pout

\* C15 (as claimed): for every raw body and content type, the parse result of
\* the Twilio adapter and of the Plivo adapter has responseBody
\* "<Response></Response>" and a responseHeaders entry Content-Type:
\* application/xml, whatever the body produced.
C15_XmlAcknowledgementAlways ==
    (ParseCalled /\ pin.provider \in {"twilio", "plivo"}) =>
        /\ pout.t = "return"
        /\ pout.responseBody = "<Response></Response>"
        /\ \E i \in 1..Len(pout.responseHeaders) :
              pout.responseHeaders[i] = [name |-> "Content-Type", value |-> "application/xml"]

\* Whether the form-encoded body parsed carries a non-empty parameter of one of
\* these names
Carries(names) ==
    \E n \in names : Truthy(ParamsGet(URLSearchParams(pin.ctx.rawBody), n))

\* The types of the events of the result, in order
EventTypes == [i \in 1..Len(pout.events) |-> pout.events[i].type]

TwilioStatusNames == { <<"M", "e", "s", "s", "a", "g", "e", "S", "t", "a", "t", "u", "s">>, <<"S", "m", "s", "S", "t", "a", "t", "u", "s">> }
TwilioSidNames == { <<"M", "e", "s", "s", "a", "g", "e", "S", "i", "d">>, <<"S", "m", "s", "S", "i", "d">> }

\* C19 (as claimed): the Twilio adapter yields exactly one delivery_status event
\* iff the body carries MessageStatus (or SmsStatus) and no Body; otherwise
\* exactly one inbound_sms event iff it carries MessageSid (or SmsSid); otherwise
\* no event.
C19_TwilioClassification ==
    (ParseCalled /\ pin.provider = "twilio") =>
        /\ pout.t = "return"
        /\ EventTypes =
             IF Carries(TwilioStatusNames) /\ ~Carries({<<"B", "o", "d", "y">>}) THEN <<"delivery_status">>
             ELSE IF Carries(TwilioSidNames) THEN <<"inbound_sms">>
             ELSE <<>>

\* C19 (amended): the Twilio adapter yields exactly one delivery_status event iff
\* the body carries a non-empty MessageStatus (or SmsStatus), no non-empty Body,
\* and a non-empty MessageSid (or SmsSid); otherwise exactly one inbound_sms event
\* iff it carries a non-empty MessageSid (or SmsSid); otherwise no event.
C19_TwilioClassificationWithSid ==
    (ParseCalled /\ pin.provider = "twilio") =>
        /\ pout.t = "return"
        /\ EventTypes =
             IF Carries(TwilioStatusNames) /\ ~Carries({<<"B", "o", "d", "y">>}) /\ Carries(TwilioSidNames)
             THEN <<"delivery_status">>
             ELSE IF Carries(TwilioSidNames) THEN <<"inbound_sms">>
             ELSE <<>>

\* C19 witness: a body with the legacy SmsStatus and SmsSid and no Body gave one
\* delivery_status event.
C19_Witness ==
    /\ ParseCalled /\ pin.provider = "twilio"
    /\ pin.ctx.rawBody = <<"S", "m", "s", "S", "i", "d", "=", "S", "M", "2", "&", "S", "m", "s", "S", "t", "a", "t", "u", "s", "=", "s", "e", "n", "t">>
    /\ pout.t = "return" /\ EventTypes = <<"delivery_status">>
    /\ pout.events[1].messageId = JStr(<<"S", "M", "2">>) /\ pout.events[1].status = "sent"

\* Whether the Plivo adapter takes the body as JSON
PlivoSentAsJson ==
    Includes(Or(Header(pin.ctx, "content-type"), JStr(<<>>)).s, <<"a", "p", "p", "l", "i", "c", "a", "t", "i", "o", "n", "/", "j", "s", "o", "n">>)

\* The field of a body as sent: a property of the JSON value, or a form parameter
PlivoBodyField(isJson, parsed, params, name) ==
    IF isJson THEN IF parsed.t = "throw" THEN None ELSE OptProp(parsed.v, name)
    ELSE ParamsGet(params, name)

\* The classification of a body by its Type, Text and MessageUUID
PlivoClassifiedAs(type, text, uuid) ==
    /\ pout.t = "return"
    /\ EventTypes =
         IF type = JStr(<<"d", "l", "r">>) \/ (~Truthy(text) /\ Truthy(uuid)) THEN <<"delivery_status">>
         ELSE IF Truthy(uuid) \/ Truthy(text) THEN <<"inbound_sms">>
         ELSE <<>>
    /\ EventTypes = <<"inbound_sms">> => pout.events[1].body = text

PlivoClassified(isJson, parsed, params) ==
    (isJson => parsed.t = "value") =>
        PlivoClassifiedAs(PlivoBodyField(isJson, parsed, params, <<"T", "y", "p", "e">>),
                          PlivoBodyField(isJson, parsed, params, <<"T", "e", "x", "t">>),
                          PlivoBodyField(isJson, parsed, params, <<"M", "e", "s", "s", "a", "g", "e", "U", "U", "I", "D">>))

\* C20 (as claimed): for every well-formed JSON or form-encoded body the Plivo
\* adapter yields exactly one delivery_status event if Type is "dlr", or Text is
\* empty or absent while MessageUUID is present; otherwise exactly one inbound_sms
\* event whose body equals Text if MessageUUID or Text is present; otherwise no
\* event.
C20_PlivoClassification ==
    (ParseCalled /\ pin.provider = "plivo") =>
        PlivoClassified(PlivoSentAsJson, JSONParse(pin.ctx.rawBody), URLSearchParams(pin.ctx.rawBody))

(***************************************************************************)
(* Status mapping: the functions that turn a provider's status string      *)
(* into a MessageStatus.                                                   *)
(***************************************************************************)
MessageStatus == {"queued", "sending", "sent", "delivered", "undelivered", "failed", "unknown"}

\* Mutant of mapTelnyxSendStatus: a status the switch does not list is unknown.
mapTelnyxSendStatusUnknown(status) ==
    CASE status = <<"q", "u", "e", "u", "e", "d">> -> "queued"
      [] status = <<"s", "e", "n", "d", "i", "n", "g">> -> "sending"
      [] status = <<"s", "e", "n", "t">> -> "sent"
      [] status = <<"d", "e", "l", "i", "v", "e", "r", "e", "d">> -> "delivered"
      [] OTHER -> "unknown"

\* switch (status) without a change of case; the default is "queued"
mapTelnyxSendStatus(status) ==
    CASE status = <<"q", "u", "e", "u", "e", "d">> -> "queued"
      [] status = <<"s", "e", "n", "d", "i", "n", "g">> -> "sending"
      [] status = <<"s", "e", "n", "t">> -> "sent"
      [] status = <<"d", "e", "l", "i", "v", "e", "r", "e", "d">> -> "delivered"
      [] OTHER -> "queued"

StatusFunctions == {"mapTwilioStatus", "mapPlivoStatus", "mapTelnyxSendStatus"}

MapStatus(fn, status) ==
    CASE fn = "mapTwilioStatus" -> mapTwilioStatus(status)
      [] fn = "mapPlivoStatus" -> mapPlivoStatus(status)
      [] fn = "mapTelnyxSendStatus" -> mapTelnyxSendStatus(status)

\* The status strings of the providers' tables as they are, in capitals and
\* capitalised, and strings of no table
StatusWords == { <<"q", "u", "e", "u", "e", "d">>, <<"a", "c", "c", "e", "p", "t", "e", "d">>, <<"s", "e", "n", "d", "i", "n", "g">>, <<"s", "e", "n", "t">>, <<"d", "e", "l", "i", "v", "e", "r", "e", "d">>, <<"u", "n", "d", "e", "l", "i", "v", "e", "r", "e", "d">>, <<"f", "a", "i", "l", "e", "d">>, <<"r", "e", "j", "e", "c", "t", "e", "d">> }
StatusCapitals == { <<"Q", "U", "E", "U", "E", "D">>, <<"A", "C", "C", "E", "P", "T", "E", "D">>, <<"S", "E", "N", "D", "I", "N", "G">>, <<"S", "E", "N", "T">>, <<"D", "E", "L", "I", "V", "E", "R", "E", "D">>, <<"U", "N", "D", "E", "L", "I", "V", "E", "R", "E", "D">>, <<"F", "A", "I", "L", "E", "D">>, <<"R", "E", "J", "E", "C", "T", "E", "D">> }
StatusCapitalised == { <<"Q", "u", "e", "u", "e", "d">>, <<"A", "c", "c", "e", "p", "t", "e", "d">>, <<"S", "e", "n", "d", "i", "n", "g">>, <<"S", "e", "n", "t">>, <<"D", "e", "l", "i", "v", "e", "r", "e", "d">>, <<"U", "n", "d", "e", "l", "i", "v", "e", "r", "e", "d">>, <<"F", "a", "i", "l", "e", "d">>, <<"R", "e", "j", "e", "c", "t", "e", "d">> }
StatusOthers == { <<>>, <<"u", "n", "k", "n", "o", "w", "n">>, <<"c", "a", "n", "c", "e", "l", "e", "d">>, <<"r", "e", "a", "d">>, <<"r", "e", "c", "e", "i", "v", "i", "n", "g">>, <<"d", "e", "l", "i", "v", "e", "r", "y", "_", "f", "a", "i", "l", "e", "d">>, <<"s", "e", "n", "t", " ">>, <<"q">> }
StatusStrings == StatusWords \cup StatusCapitals \cup StatusCapitalised \cup StatusOthers

InitStatus ==
    /\ ServerIdle /\ VerifyIdle /\ ParseIdle /\ ChunkIdle /\ SendIdle /\ MockIdle /\ LifeIdle /\ SplitIdle /\ RuntimeIdle
    /\ stin \in [ fn : StatusFunctions, status : StatusStrings ]
    /\ stout = None

\* One call of a status-mapping function
MapStatusCall ==
    /\ stin # None /\ stout = None
    /\ stout' = [t |-> "status", status |-> MapStatus(stin.fn, stin.status)]
    /\ UNCHANGED <<stin, serverVars, verifyVars, parseVars, chunkVars, sendVars, mockVars,
                   lifeVars, splitVars, runtimeVars>>

NextStatus == MapStatusCall

SpecStatus == InitStatus /\ [][NextStatus]_vars

\* The tables of the providers: the listed status strings and their values
TwilioStatusTable ==
    [ w \in { <<"q", "u", "e", "u", "e", "d">>, <<"a", "c", "c", "e", "p", "t", "e", "d">>, <<"s", "e", "n", "d", "i", "n", "g">>, <<"s", "e", "n", "t">>, <<"d", "e", "l", "i", "v", "e", "r", "e", "d">>, <<"u", "n", "d", "e", "l", "i", "v", "e", "r", "e", "d">>, <<"f", "a", "i", "l", "e", "d">> } |->
        CASE w \in { <<"q", "u", "e", "u", "e", "d">>, <<"a", "c", "c", "e", "p", "t", "e", "d">> } -> "queued"
          [] w = <<"s", "e", "n", "d", "i", "n", "g">> -> "sending"
          [] w = <<"s", "e", "n", "t">> -> "sent"
          [] w = <<"d", "e", "l", "i", "v", "e", "r", "e", "d">> -> "delivered"
          [] w = <<"u", "n", "d", "e", "l", "i", "v", "e", "r", "e", "d">> -> "undelivered"
          [] w = <<"f", "a", "i", "l", "e", "d">> -> "failed" ]
PlivoStatusTable ==
    [ w \in { <<"q", "u", "e", "u", "e", "d">>, <<"s", "e", "n", "t">>, <<"d", "e", "l", "i", "v", "e", "r", "e", "d">>, <<"u", "n", "d", "e", "l", "i", "v", "e", "r", "e", "d">>, <<"f", "a", "i", "l", "e", "d">>, <<"r", "e", "j", "e", "c", "t", "e", "d">> } |->
        CASE w = <<"q", "u", "e", "u", "e", "d">> -> "queued"
          [] w = <<"s", "e", "n", "t">> -> "sent"
          [] w = <<"d", "e", "l", "i", "v", "e", "r", "e", "d">> -> "delivered"
          [] w = <<"u", "n", "d", "e", "l", "i", "v", "e", "r", "e", "d">> -> "undelivered"
          [] w \in { <<"f", "a", "i", "l", "e", "d">>, <<"r", "e", "j", "e", "c", "t", "e", "d">> } -> "failed" ]
TelnyxSendStatusTable ==
    [ w \in { <<"q", "u", "e", "u", "e", "d">>, <<"s", "e", "n", "d", "i", "n", "g">>, <<"s", "e", "n", "t">>, <<"d", "e", "l", "i", "v", "e", "r", "e", "d">> } |->
        CASE w = <<"q", "u", "e", "u", "e", "d">> -> "queued"
          [] w = <<"s", "e", "n", "d", "i", "n", "g">> -> "sending"
          [] w = <<"s", "e", "n", "t">> -> "sent"
          [] w = <<"d", "e", "l", "i", "v", "e", "r", "e", "d">> -> "delivered" ]
StatusTable(fn) ==
    CASE fn = "mapTwilioStatus" -> TwilioStatusTable
      [] fn = "mapPlivoStatus" -> PlivoStatusTable
      [] fn = "mapTelnyxSendStatus" -> TelnyxSendStatusTable

\* The value of key in table, or rest when the table does not list it
Lookup(table, key, rest) == IF key \in DOMAIN table THEN table[key] ELSE rest

\* C21 (as claimed): every status-mapping function maps every string to one
\* MessageStatus: a string of the provider's table to its listed value and every
\* other string to unknown.
C21_StatusMappingByTable ==
    stout # None =>
        /\ stout.status \in MessageStatus
        /\ stout.status = Lookup(StatusTable(stin.fn), stin.status, "unknown")

\* C21 (amended): every status-mapping function maps every string to one
\* MessageStatus.  The Twilio and Plivo functions look the string up without
\* regard to case and map a string of no table entry to unknown; the Telnyx
\* send-status function looks the string up as it is and maps a string of no
\* table entry to queued.
C21_StatusMappingByFoldedTable ==
    stout # None =>
        /\ stout.status \in MessageStatus
        /\ stout.status = IF stin.fn = "mapTelnyxSendStatus"
                          THEN Lookup(TelnyxSendStatusTable, stin.status, "queued")
                          ELSE Lookup(StatusTable(stin.fn), toLowerCase(stin.status), "unknown")

\* C21 witness: the Telnyx send-status function was given "failed", which its
\* table does not list, and returned queued.
C21_Witness ==
    /\ stin # None /\ stin.fn = "mapTelnyxSendStatus" /\ stin.status = <<"f", "a", "i", "l", "e", "d">>
    /\ stout # None /\ stout.status = "queued"

(***************************************************************************)
(* sendSms and sendMms of the Twilio, Telnyx and Plivo adapters.  A call   *)
(* builds one request and awaits fetch; fetch rejects, or resolves with a  *)
(* response (status and body text), and the call goes on to its outcome.   *)
(* The body of a request is the list of its fields in the order they are   *)
(* set.                                                                    *)
(***************************************************************************)
TWILIO_API_BASE == "https://api.twilio.com/2010-04-01"
TELNYX_API_BASE == "https://api.telnyx.com/v2"
PLIVO_API_BASE == "https://api.plivo.com/v1"

SendResult(messageId, status, provider, segments) ==
    [t |-> "return", messageId |-> messageId, status |-> status, provider |-> provider,
     segments |-> segments]
SendThrown(message) == [t |-> "throw", message |-> message]

\* The fields that are set, in order
Fields(pairs) == SelectSeq(pairs, LAMBDA p : p[2] # None)

TwilioSendBody(opts, params, op) ==
    Fields(<< <<"To", params.to>>, <<"Body", params.body>>,
              IF opts.messagingServiceSid # None
              THEN <<"MessagingServiceSid", opts.messagingServiceSid>>
              ELSE <<"From", params.from>> >>)
      \o (IF op = "sendMms" THEN [i \in 1..Len(params.mediaUrls) |-> <<"MediaUrl", Text(params.mediaUrls[i])>>]
          ELSE <<>>)
      \o Fields(<< <<"StatusCallback", params.statusCallback>> >>)

TelnyxSendBody(opts, params, op) ==
    Fields(<< <<"from", params.from>>, <<"to", params.to>>, <<"text", params.body>>,
              <<"type", Text(IF op = "sendMms" THEN "MMS" ELSE "SMS")>>,
              <<"media_urls", IF op = "sendMms" THEN Text(params.mediaUrls) ELSE None>>,
              <<"messaging_profile_id", opts.messagingProfileId>>,
              <<"webhook_url", params.statusCallback>> >>)

PlivoSendBody(params, op) ==
    Fields(<< <<"src", params.from>>, <<"dst", params.to>>, <<"text", params.body>>,
              <<"type", IF op = "sendMms" THEN Text("mms") ELSE None>>,
              <<"media_urls", IF op = "sendMms" THEN Text(params.mediaUrls) ELSE None>>,
              <<"url", params.statusCallback>> >>)

\* The arguments of the fetch of a call
SendRequest(provider, opts, params, op) ==
    CASE provider = "twilio" ->
           [url |-> <<TWILIO_API_BASE, "/Accounts/", opts.accountSid, "/Messages.json">>,
            method |-> "POST", contentType |-> "application/x-www-form-urlencoded",
            authorization |-> <<"Basic", opts.accountSid, opts.authToken>>,
            body |-> TwilioSendBody(opts, params, op)]
      [] provider = "telnyx" ->
           [url |-> <<TELNYX_API_BASE, "/messages">>,
            method |-> "POST", contentType |-> "application/json",
            authorization |-> <<"Bearer", opts.apiKey>>,
            body |-> TelnyxSendBody(opts, params, op)]
      [] provider = "plivo" ->
           [url |-> <<PLIVO_API_BASE, "/Account/", opts.authId, "/Message/">>,
            method |-> "POST", contentType |-> "application/json",
            authorization |-> <<"Basic", opts.authId, opts.authToken>>,
            body |-> PlivoSendBody(params, op)]

\* response.ok
ResponseOk(status) == status >= 200 /\ status <= 299

\* Mutant of SendFailedMessage: the message leaves the HTTP status out.
SendFailedMessageNoStatus(name, kind, status, error) ==
    name \o <<" ">> \o kind \o <<" ", "s", "e", "n", "d", " ", "f", "a", "i", "l", "e", "d", ":", " ">> \o error

\* `"{name} "{kind} send failed ("{response.status}): "{error}`
SendFailedMessage(name, kind, status, error) ==
    name \o <<" ">> \o kind \o <<" ", "s", "e", "n", "d", " ", "f", "a", "i", "l", "e", "d", " ", "(">> \o DecimalString(status) \o <<")", ":", " ">> \o error

SendKind(op) == IF op = "sendMms" THEN <<"M", "M", "S">> ELSE <<"S", "M", "S">>

\* Twilio: the result of a parsed response body
TwilioSendResult(parsed) ==
    IF parsed.t = "throw" THEN SendThrown(<<"S", "y", "n", "t", "a", "x", "E", "r", "r", "o", "r", ":", " ", "U", "n", "e", "x", "p", "e", "c", "t", "e", "d", " ", "t", "o", "k", "e", "n">>)
    ELSE IF Nullish(parsed.v) THEN SendThrown(<<"T", "y", "p", "e", "E", "r", "r", "o", "r", ":", " ", "C", "a", "n", "n", "o", "t", " ", "r", "e", "a", "d", " ", "p", "r", "o", "p", "e", "r", "t", "i", "e", "s", " ", "o", "f", " ", "n", "u", "l", "l">>)
    ELSE IF Prop(parsed.v, <<"s", "t", "a", "t", "u", "s">>).t # "string"
    THEN SendThrown(<<"T", "y", "p", "e", "E", "r", "r", "o", "r", ":", " ", "s", "t", "a", "t", "u", "s", ".", "t", "o", "L", "o", "w", "e", "r", "C", "a", "s", "e", " ", "i", "s", " ", "n", "o", "t", " ", "a", " ", "f", "u", "n", "c", "t", "i", "o", "n">>)
    ELSE SendResult(Prop(parsed.v, <<"s", "i", "d">>),
                    mapTwilioStatus(Prop(parsed.v, <<"s", "t", "a", "t", "u", "s">>).s),
                    "twilio",
                    parseInt(JsString(Or(Prop(parsed.v, <<"n", "u", "m", "_", "s", "e", "g", "m", "e", "n", "t", "s">>), JStr(<<"1">>)))))

\* mapTelnyxSendStatus(result.data.to?.[0]?.status)
TelnyxSentStatus(status) ==
    IF status.t = "string" THEN mapTelnyxSendStatus(status.s) ELSE "queued"

\* Telnyx: the result of result.data
TelnyxSendData(data) ==
    IF Nullish(data) THEN SendThrown(<<"T", "y", "p", "e", "E", "r", "r", "o", "r", ":", " ", "C", "a", "n", "n", "o", "t", " ", "r", "e", "a", "d", " ", "p", "r", "o", "p", "e", "r", "t", "i", "e", "s", " ", "o", "f", " ", "u", "n", "d", "e", "f", "i", "n", "e", "d">>)
    ELSE SendResult(Prop(data, <<"i", "d">>),
                    TelnyxSentStatus(OptProp(OptFirst(Prop(data, <<"t", "o">>)), <<"s", "t", "a", "t", "u", "s">>)),
                    "telnyx", None)

TelnyxSendResult(parsed) ==
    IF parsed.t = "throw" THEN SendThrown(<<"S", "y", "n", "t", "a", "x", "E", "r", "r", "o", "r", ":", " ", "U", "n", "e", "x", "p", "e", "c", "t", "e", "d", " ", "t", "o", "k", "e", "n">>)
    ELSE IF Nullish(parsed.v) THEN SendThrown(<<"T", "y", "p", "e", "E", "r", "r", "o", "r", ":", " ", "C", "a", "n", "n", "o", "t", " ", "r", "e", "a", "d", " ", "p", "r", "o", "p", "e", "r", "t", "i", "e", "s", " ", "o", "f", " ", "n", "u", "l", "l">>)
    ELSE TelnyxSendData(Prop(parsed.v, <<"d", "a", "t", "a">>))

PlivoSendResult(parsed) ==
    IF parsed.t = "throw" THEN SendThrown(<<"S", "y", "n", "t", "a", "x", "E", "r", "r", "o", "r", ":", " ", "U", "n", "e", "x", "p", "e", "c", "t", "e", "d", " ", "t", "o", "k", "e", "n">>)
    ELSE IF Nullish(parsed.v) THEN SendThrown(<<"T", "y", "p", "e", "E", "r", "r", "o", "r", ":", " ", "C", "a", "n", "n", "o", "t", " ", "r", "e", "a", "d", " ", "p", "r", "o", "p", "e", "r", "t", "i", "e", "s", " ", "o", "f", " ", "n", "u", "l", "l">>)
    ELSE SendResult(Or(OptFirst(Prop(parsed.v, <<"m", "e", "s", "s", "a", "g", "e", "_", "u", "u", "i", "d">>)), JStr(<<>>)),
                    "queued", "plivo", None)

\* The outcome of a call whose fetch resolved with a response
SendOutcome(provider, op, resp) ==
    CASE provider = "twilio" ->
           IF ~ResponseOk(resp.status)
           THEN SendThrown(SendFailedMessage(<<"T", "w", "i", "l", "i", "o">>, SendKind(op), resp.status, resp.body))
           ELSE TwilioSendResult(JSONParse(resp.body))
      [] provider = "telnyx" ->
           IF ~ResponseOk(resp.status)
           THEN SendThrown(SendFailedMessage(<<"T", "e", "l", "n", "y", "x">>, SendKind(op), resp.status, resp.body))
           ELSE TelnyxSendResult(JSONParse(resp.body))
      [] provider = "plivo" ->
           IF ~ResponseOk(resp.status)
           THEN SendThrown(SendFailedMessage(<<"P", "l", "i", "v", "o">>, SendKind(op), resp.status, resp.body))
           ELSE PlivoSendResult(JSONParse(resp.body))

SendOptions(provider) ==
    CASE provider = "twilio" ->
           [ accountSid : {"AC123"}, authToken : {AuthToken}, messagingServiceSid : {None, Text("MG_SERVICE")} ]
      [] provider = "telnyx" ->
           [ apiKey : {"KEY123"}, messagingProfileId : {None, Text("profile-1")} ]
      [] provider = "plivo" ->
           [ authId : {"MA123"}, authToken : {AuthToken} ]

SendParamsSet ==
    [ to : {Text("+15550005678")}, from : {Text("+15550001234")}, body : {Text("Test message")},
      statusCallback : {None, Text("https://example.com/status")} ]

SendCalls ==
    UNION { [ provider : {pr}, op : {"sendSms"}, opts : SendOptions(pr), params : SendParamsSet ]
              \cup { [ provider |-> pr, op |-> "sendMms", opts |-> o,
                       params |-> [ to |-> p.to, from |-> p.from, body |-> p.body,
                                    statusCallback |-> p.statusCallback, mediaUrls |-> m ] ] :
                       o \in SendOptions(pr), p \in SendParamsSet,
                       m \in { <<"https://example.com/a.jpg">>,
                               <<"https://example.com/a.jpg", "https://example.com/b.jpg">> } } :
            pr \in {"twilio", "telnyx", "plivo"} }

\* The responses of the provider's API: the statuses fetch resolves with, and the
\* body texts of the tests and of malformed acknowledgements
ResponseStatuses == {200, 201, 299, 300, 304, 400, 401, 404, 429, 500, 503}
ResponseBodies ==
    { <<>>, <<"U", "n", "a", "u", "t", "h", "o", "r", "i", "z", "e", "d">>, <<"n", "u", "l", "l">>, <<"{", "}">>,
      <<"{", "U+0022", "s", "i", "d", "U+0022", ":", "U+0022", "S", "M", "_", "S", "E", "N", "T", "U+0022", ",", "U+0022", "s", "t", "a", "t", "u", "s", "U+0022", ":", "U+0022", "q", "u", "e", "u", "e", "d", "U+0022", ",", "U+0022", "n", "u", "m", "_", "s", "e", "g", "m", "e", "n", "t", "s", "U+0022", ":", "U+0022", "2", "U+0022", "}">>,
      <<"{", "U+0022", "s", "i", "d", "U+0022", ":", "U+0022", "S", "M", "_", "S", "E", "N", "T", "U+0022", ",", "U+0022", "s", "t", "a", "t", "u", "s", "U+0022", ":", "U+0022", "A", "c", "c", "e", "p", "t", "e", "d", "U+0022", "}">>,
      <<"{", "U+0022", "d", "a", "t", "a", "U+0022", ":", "{", "U+0022", "i", "d", "U+0022", ":", "U+0022", "m", "s", "g", "-", "1", "U+0022", ",", "U+0022", "t", "o", "U+0022", ":", "[", "{", "U+0022", "s", "t", "a", "t", "u", "s", "U+0022", ":", "U+0022", "s", "e", "n", "t", "U+0022", "}", "]", "}", "}">>,
      <<"{", "U+0022", "d", "a", "t", "a", "U+0022", ":", "{", "U+0022", "i", "d", "U+0022", ":", "U+0022", "m", "s", "g", "-", "1", "U+0022", "}", "}">>,
      <<"{", "U+0022", "m", "e", "s", "s", "a", "g", "e", "_", "u", "u", "i", "d", "U+0022", ":", "[", "U+0022", "u", "u", "i", "d", "-", "1", "U+0022", "]", ",", "U+0022", "m", "e", "s", "s", "a", "g", "e", "U+0022", ":", "U+0022", "q", "u", "e", "u", "e", "d", "U+0022", "}">>,
      <<"{", "U+0022", "c", "o", "d", "e", "U+0022", ":", "2", "0", "0", "0", "3", ",", "U+0022", "m", "e", "s", "s", "a", "g", "e", "U+0022", ":", "U+0022", "A", "u", "t", "h", "e", "n", "t", "i", "c", "a", "t", "e", "U+0022", "}">> }
Responses == [ status : ResponseStatuses, body : ResponseBodies ]

InitSend ==
    /\ ServerIdle /\ VerifyIdle /\ ParseIdle /\ ChunkIdle /\ StatusIdle /\ MockIdle /\ LifeIdle /\ SplitIdle /\ RuntimeIdle
    /\ sendCall \in SendCalls
    /\ sendPc = "idle" /\ fetched = <<>> /\ response = None /\ sendOut = None

\* provider.sendSms(params) / provider.sendMms(params) up to the await of fetch
SendStart ==
    /\ sendPc = "idle" /\ sendCall # None
    /\ fetched' = Append(fetched, SendRequest(sendCall.provider, sendCall.opts, sendCall.params, sendCall.op))
    /\ sendPc' = "fetching"
    /\ UNCHANGED <<sendCall, response, sendOut, serverVars, verifyVars, parseVars, chunkVars, statusVars,
                   mockVars, lifeVars, splitVars, runtimeVars>>

\* fetch rejects (no connection): the call rejects with that error
FetchRejects ==
    /\ sendPc = "fetching"
    /\ sendOut' = SendThrown(<<"T", "y", "p", "e", "E", "r", "r", "o", "r", ":", " ", "f", "e", "t", "c", "h", " ", "f", "a", "i", "l", "e", "d">>)
    /\ sendPc' = "done"
    /\ UNCHANGED <<sendCall, fetched, response, serverVars, verifyVars, parseVars, chunkVars, statusVars,
                   mockVars, lifeVars, splitVars, runtimeVars>>

\* fetch resolves with a response: the call runs to its return or throw
FetchResolves ==
    /\ sendPc = "fetching"
    /\ \E resp \in Responses :
         /\ response' = resp
         /\ sendOut' = SendOutcome(sendCall.provider, sendCall.op, resp)
    /\ sendPc' = "done"
    /\ UNCHANGED <<sendCall, fetched, serverVars, verifyVars, parseVars, chunkVars, statusVars,
                   mockVars, lifeVars, splitVars, runtimeVars>>

NextSend == SendStart \/ FetchRejects \/ FetchResolves

SpecSend == InitSend /\ [][NextSend]_vars

\* The provider's name in characters
ProviderChars(provider) ==
    CASE provider = "twilio" -> <<"t", "w", "i", "l", "i", "o">>
      [] provider = "telnyx" -> <<"t", "e", "l", "n", "y", "x">>
      [] provider = "plivo" -> <<"p", "l", "i", "v", "o">>

\* C22: a sendSms or sendMms call of the Twilio, Telnyx and Plivo adapters issues
\* exactly one HTTP request; when the response has a non-2xx status the call
\* rejects with an error whose message contains the provider's name, the numeric
\* status and the response body, it has issued no further request and returns no
\* SendSmsResult.
C22_SendFailureSurfaced ==
    /\ Len(fetched) = (IF sendPc = "idle" THEN 0 ELSE 1)
    /\ (sendPc = "done" /\ response # None /\ ~(response.status \in 200..299)) =>
          /\ sendOut.t = "throw"
          /\ Includes(toLowerCase(sendOut.message), ProviderChars(sendCall.provider))
          /\ Includes(sendOut.message, DecimalString(response.status))
          /\ Includes(sendOut.message, response.body)

\* C22 witness: a Telnyx sendMms got a 429 with a body and rejected, after one
\* request.
C22_Witness ==
    /\ sendPc = "done" /\ sendCall.provider = "telnyx" /\ sendCall.op = "sendMms"
    /\ response # None /\ response.status = 429 /\ response.body = <<"U", "n", "a", "u", "t", "h", "o", "r", "i", "z", "e", "d">>
    /\ Len(fetched) = 1 /\ sendOut.t = "throw"

(***************************************************************************)
(* MockProvider: sendSms, sendMms and initiateCall on its instances.  The  *)
(* body of each method runs without an await, so a call is one step.       *)
(***************************************************************************)
MockInstances == {1, 2}
MaxMockCalls == 4

\* new MockProvider()
NewMockProvider ==
    [sentMessages |-> <<>>, initiatedCalls |-> <<>>, messageCounter |-> 0, callCounter |-> 0]

MockSendParams == [to |-> "+1", from |-> "+2", body |-> "a"]
MockMmsParams == [to |-> "+1", from |-> "+2", body |-> "a", mediaUrls |-> <<"https://example.com/a.jpg">>]
MockCallParams == [to |-> "+1", from |-> "+2"]

\* The instance after sendSms or sendMms(params)
MockSent(m, params) ==
    [m EXCEPT !.sentMessages = Append(@, params), !.messageCounter = @ + 1]

\* The instance after initiateCall(params)
MockCalled(m, params) ==
    [m EXCEPT !.initiatedCalls = Append(@, params), !.callCounter = @ + 1]

MockReturn(inst, op, id) == [inst |-> inst, op |-> op, id |-> id]

InitMock ==
    /\ ServerIdle /\ VerifyIdle /\ ParseIdle /\ ChunkIdle /\ StatusIdle /\ SendIdle /\ LifeIdle /\ SplitIdle /\ RuntimeIdle
    /\ mocks = [i \in MockInstances |-> NewMockProvider]
    /\ mockCalls = <<>>

MockSendSms ==
    /\ mocks # None /\ Len(mockCalls) < MaxMockCalls
    /\ \E i \in MockInstances :
         /\ mocks' = [mocks EXCEPT ![i] = MockSent(mocks[i], MockSendParams)]
         /\ mockCalls' = Append(mockCalls,
                                MockReturn(i, "sendSms",
                                           <<"m", "o", "c", "k", "-", "m", "s", "g", "-">> \o DecimalString(mocks[i].messageCounter + 1)))
    /\ UNCHANGED <<serverVars, verifyVars, parseVars, chunkVars, statusVars, sendVars,
                   lifeVars, splitVars, runtimeVars>>

MockSendMms ==
    /\ mocks # None /\ Len(mockCalls) < MaxMockCalls
    /\ \E i \in MockInstances :
         /\ mocks' = [mocks EXCEPT ![i] = MockSent(mocks[i], MockMmsParams)]
         /\ mockCalls' = Append(mockCalls,
                                MockReturn(i, "sendMms",
                                           <<"m", "o", "c", "k", "-", "m", "m", "s", "-">> \o DecimalString(mocks[i].messageCounter + 1)))
    /\ UNCHANGED <<serverVars, verifyVars, parseVars, chunkVars, statusVars, sendVars,
                   lifeVars, splitVars, runtimeVars>>

MockInitiateCall ==
    /\ mocks # None /\ Len(mockCalls) < MaxMockCalls
    /\ \E i \in MockInstances :
         /\ mocks' = [mocks EXCEPT ![i] = MockCalled(mocks[i], MockCallParams)]
         /\ mockCalls' = Append(mockCalls,
                                MockReturn(i, "initiateCall",
                                           <<"m", "o", "c", "k", "-", "c", "a", "l", "l", "-">> \o DecimalString(mocks[i].callCounter + 1)))
    /\ UNCHANGED <<serverVars, verifyVars, parseVars, chunkVars, statusVars, sendVars,
                   lifeVars, splitVars, runtimeVars>>

NextMock == MockSendSms \/ MockSendMms \/ MockInitiateCall

SpecMock == InitMock /\ [][NextMock]_vars

\* The prefix of the identifiers of an operation
MockIdPrefix(op) ==
    CASE op = "sendSms" -> <<"m", "o", "c", "k", "-", "m", "s", "g", "-">>
      [] op = "sendMms" -> <<"m", "o", "c", "k", "-", "m", "m", "s", "-">>
      [] op = "initiateCall" -> <<"m", "o", "c", "k", "-", "c", "a", "l", "l", "-">>

\* The number of the first n calls that are the operation of the n-th, on its instance
NthOfItsKind(n) ==
    Cardinality({ j \in 1..n : /\ mockCalls[j].inst = mockCalls[n].inst
                               /\ mockCalls[j].op = mockCalls[n].op })

\* C23: on every MockProvider instance and in every interleaving, the k-th sendSms
\* returns mock-msg-k, the k-th sendMms returns mock-mms-k and the k-th
\* initiateCall returns mock-call-k, whatever is called on another instance.
C23_SequentialIdentifiers ==
    \A n \in 1..Len(mockCalls) :
        mockCalls[n].id = MockIdPrefix(mockCalls[n].op) \o DecimalString(NthOfItsKind(n))

(***************************************************************************)
(* TelephonyWebhookServer: start() and stop().  An http.Server is binding  *)
(* (listen called, not yet bound), listening, failed (listen gave an       *)
(* error) or closing (closed to new connections).  close(callback) adds a  *)
(* once("close") listener and, when the server holds no handle and no      *)
(* connection, schedules the close event; the event runs the listeners.    *)
(***************************************************************************)
MaxStarts == 2
MaxStops == 3
MaxConnections == 1

NewHttpServer == [state |-> "binding", connections |-> 0, waiters |-> {}, emit |-> FALSE]

\* Mutant of EmitsCloseIfDrained: close() on a server that is not listening
\* schedules no close event.
EmitsCloseIfWasListening(srv, wasListening) ==
    wasListening /\ srv.state # "listening" /\ srv.connections = 0

\* net.Server's _emitCloseIfDrained: no handle and no connection
EmitsCloseIfDrained(srv, wasListening) ==
    srv.state # "listening" /\ srv.connections = 0

\* The http.Server after the handle is closed
HandleClosed(srv) == [srv EXCEPT !.state = IF @ = "listening" THEN "closing" ELSE @]

\* this.server.close(callback), the callback being that of the k-th stop()
ServerClose(srv, k) ==
    [HandleClosed(srv) EXCEPT
       !.waiters = @ \cup {k},
       !.emit = @ \/ EmitsCloseIfDrained(HandleClosed(srv), srv.state = "listening")]

StopPromise(state, running) == [state |-> state, running |-> running, ref |-> 0]

InitLifecycle ==
    /\ ServerIdle /\ VerifyIdle /\ ParseIdle /\ ChunkIdle /\ StatusIdle /\ SendIdle /\ MockIdle /\ SplitIdle /\ RuntimeIdle
    /\ serverRef = 0 /\ httpServers = <<>> /\ startCalls = <<>> /\ stopCalls = <<>>

\* start(): createServer, on("error", reject), listen
StartCall ==
    /\ Len(httpServers) < MaxStarts
    /\ httpServers' = Append(httpServers, NewHttpServer)
    /\ serverRef' = Len(httpServers) + 1
    /\ startCalls' = Append(startCalls, "pending")
    /\ UNCHANGED <<stopCalls, serverVars, verifyVars, parseVars, chunkVars, statusVars, sendVars, mockVars,
                   splitVars, runtimeVars>>

\* The listen callback: start() resolves with the url
Listening(s) ==
    /\ s \in 1..Len(httpServers) /\ httpServers[s].state = "binding"
    /\ httpServers' = [httpServers EXCEPT ![s].state = "listening"]
    /\ startCalls' = [startCalls EXCEPT ![s] = "resolved"]
    /\ UNCHANGED <<serverRef, stopCalls, serverVars, verifyVars, parseVars, chunkVars, statusVars, sendVars, mockVars,
                   splitVars, runtimeVars>>

\* The error event of a listen that fails (EADDRINUSE): start() rejects
ListenError(s) ==
    /\ s \in 1..Len(httpServers) /\ httpServers[s].state = "binding"
    /\ httpServers' = [httpServers EXCEPT ![s].state = "failed"]
    /\ startCalls' = [startCalls EXCEPT ![s] = "rejected"]
    /\ UNCHANGED <<serverRef, stopCalls, serverVars, verifyVars, parseVars, chunkVars, statusVars, sendVars, mockVars,
                   splitVars, runtimeVars>>

\* A client connects to a listening server
Connect(s) ==
    /\ s \in 1..Len(httpServers) /\ httpServers[s].state = "listening"
    /\ httpServers[s].connections < MaxConnections
    /\ httpServers' = [httpServers EXCEPT ![s].connections = @ + 1]
    /\ UNCHANGED <<serverRef, startCalls, stopCalls, serverVars, verifyVars, parseVars, chunkVars, statusVars, sendVars, mockVars,
                   splitVars, runtimeVars>>

\* A connection ends
Disconnect(s) ==
    /\ s \in 1..Len(httpServers) /\ httpServers[s].connections > 0
    /\ httpServers' =
         [httpServers EXCEPT ![s] =
            [@ EXCEPT !.connections = @ - 1,
                      !.emit = @ \/ (httpServers[s].state = "closing" /\ httpServers[s].connections = 1)]]
    /\ UNCHANGED <<serverRef, startCalls, stopCalls, serverVars, verifyVars, parseVars, chunkVars, statusVars, sendVars, mockVars,
                   splitVars, runtimeVars>>

\* stop(): resolve at once without a server, else this.server.close(callback)
StopCall ==
    /\ Len(stopCalls) < MaxStops
    /\ IF serverRef = 0
       THEN /\ stopCalls' = Append(stopCalls, StopPromise("resolved", FALSE))
            /\ UNCHANGED httpServers
       ELSE /\ httpServers' = [httpServers EXCEPT ![serverRef] = ServerClose(@, Len(stopCalls) + 1)]
            /\ stopCalls' = Append(stopCalls, StopPromise("pending", httpServers[serverRef].state = "listening"))
    /\ UNCHANGED <<serverRef, startCalls, serverVars, verifyVars, parseVars, chunkVars, statusVars, sendVars, mockVars,
                   splitVars, runtimeVars>>

\* The close event of a server: each callback sets this.server = null and
\* resolves its stop()
CloseEvent(s) ==
    /\ s \in 1..Len(httpServers) /\ httpServers[s].emit
    /\ httpServers' = [httpServers EXCEPT ![s] = [@ EXCEPT !.emit = FALSE, !.waiters = {}]]
    /\ serverRef' = IF httpServers[s].waiters = {} THEN serverRef ELSE 0
    /\ stopCalls' = [k \in 1..Len(stopCalls) |->
                   IF k \in httpServers[s].waiters
                   THEN [stopCalls[k] EXCEPT !.state = "resolved", !.ref = 0]
                   ELSE stopCalls[k]]
    /\ UNCHANGED <<startCalls, serverVars, verifyVars, parseVars, chunkVars, statusVars, sendVars, mockVars,
                   splitVars, runtimeVars>>

NextLifecycle ==
    \/ StartCall \/ StopCall
    \/ \E s \in 1..MaxStarts : Listening(s) \/ ListenError(s) \/ Connect(s) \/ Disconnect(s) \/ CloseEvent(s)

SpecLifecycle == InitLifecycle /\ [][NextLifecycle]_vars

\* Every connection ends and every scheduled close event is emitted
SpecLifecycleFair ==
    /\ SpecLifecycle
    /\ \A s \in 1..MaxStarts : WF_vars(Disconnect(s)) /\ WF_vars(CloseEvent(s))

MaxCallers == 2
MaxRuntimes == 3
MaxServiceStops == 2

Callers == 1..MaxCallers

\* A caller that is not inside ensureRuntime
NoCall == [pc |-> "idle", value |-> 0, stops |-> 0, awaited |-> FALSE]

\* The continuation of an await of promise p: of ensureRuntime called by caller
\* `id`, or of the stop of the service (id 0)
Job(who, id, p) == [who |-> who, id |-> id, promise |-> p]

\* Mutant of NeedsCreate: ensureRuntime does not look at the cached promise.
AlwaysCreate(cached) == TRUE

\* if (!runtimePromise)
NeedsCreate(cached) == cached = 0

\* createTelephonyRuntime(...) up to its await of webhookServer.start(): the
\* promise it returns is pending, its server is starting
NewRuntimePromise == [state |-> "pending", server |-> "starting", reactions |-> <<>>]

\* await ps[p] by job: queued behind the awaits made before when the promise
\* is pending, and run as a job of its own when it is settled
AwaitPromise(ps, js, p, job) ==
    IF ps[p].state = "pending"
    THEN [promises |-> [ps EXCEPT ![p].reactions = Append(@, job)], jobs |-> js]
    ELSE [promises |-> ps, jobs |-> Append(js, job)]

\* The promise settles: its reactions are queued in their order
SettlePromise(ps, js, p, state, srv) ==
    [promises |-> [ps EXCEPT ![p] = [state |-> state, server |-> srv, reactions |-> <<>>]],
     jobs |-> js \o ps[p].reactions]

InitRuntime ==
    /\ ServerIdle /\ VerifyIdle /\ ParseIdle /\ ChunkIdle /\ StatusIdle /\ SendIdle /\ MockIdle /\ LifeIdle /\ SplitIdle
    /\ runtimePromise = 0 /\ runtime = 0
    /\ promises = <<>> /\ jobs = <<>>
    /\ ensureCalls = [c \in Callers |-> NoCall]
    /\ serviceStop = None
    /\ stopsDone = 0 /\ createdSinceStop = 0

\* ensureRuntime() is called by c and runs to its return or to its await
EnsureRuntime(c) ==
    /\ ensureCalls[c].pc # "awaiting"
    /\ IF runtime # 0
       THEN /\ ensureCalls' = [ensureCalls EXCEPT ![c] = [pc |-> "returned", value |-> runtime,
                                                          stops |-> stopsDone, awaited |-> FALSE]]
            /\ UNCHANGED <<runtimePromise, promises, jobs, createdSinceStop>>
       ELSE LET create == NeedsCreate(runtimePromise)
                ps == IF create THEN Append(promises, NewRuntimePromise) ELSE promises
                p == IF create THEN Len(promises) + 1 ELSE runtimePromise
                waiting == AwaitPromise(ps, jobs, p, Job("ensureRuntime", c, p))
            IN  /\ create => Len(promises) < MaxRuntimes
                /\ runtimePromise' = p
                /\ createdSinceStop' = IF create THEN createdSinceStop + 1 ELSE createdSinceStop
                /\ promises' = waiting.promises
                /\ jobs' = waiting.jobs
                /\ ensureCalls' = [ensureCalls EXCEPT ![c] = [pc |-> "awaiting", value |-> 0,
                                                              stops |-> stopsDone, awaited |-> TRUE]]
    /\ UNCHANGED <<runtime, serviceStop, stopsDone>>
    /\ UNCHANGED <<serverVars, verifyVars, parseVars, chunkVars, statusVars, sendVars, mockVars, lifeVars, splitVars>>

\* The listen callback of the server of promise p: webhookServer.start() resolves
\* and createTelephonyRuntime returns the runtime
ListenCallback(p) ==
    /\ jobs = <<>>
    /\ p \in 1..Len(promises) /\ promises[p].state = "pending"
    /\ LET settled == SettlePromise(promises, jobs, p, "resolved", "listening")
       IN  promises' = settled.promises /\ jobs' = settled.jobs
    /\ UNCHANGED <<runtimePromise, runtime, ensureCalls, serviceStop, stopsDone, createdSinceStop>>
    /\ UNCHANGED <<serverVars, verifyVars, parseVars, chunkVars, statusVars, sendVars, mockVars, lifeVars, splitVars>>

\* The server of promise p emits error before it listens: webhookServer.start()
\* rejects and so does createTelephonyRuntime
ListenFails(p) ==
    /\ jobs = <<>>
    /\ p \in 1..Len(promises) /\ promises[p].state = "pending"
    /\ LET settled == SettlePromise(promises, jobs, p, "rejected", "failed")
       IN  promises' = settled.promises /\ jobs' = settled.jobs
    /\ UNCHANGED <<runtimePromise, runtime, ensureCalls, serviceStop, stopsDone, createdSinceStop>>
    /\ UNCHANGED <<serverVars, verifyVars, parseVars, chunkVars, statusVars, sendVars, mockVars, lifeVars, splitVars>>

\* finally { runtimePromise = null; runtime = null }, and the stop is over
StopFinally ==
    /\ runtimePromise' = 0 /\ runtime' = 0
    /\ serviceStop' = None
    /\ stopsDone' = stopsDone + 1
    /\ createdSinceStop' = 0

\* runtime = await runtimePromise; return runtime
EnsureRuntimeResumes ==
    /\ jobs # <<>> /\ Head(jobs).who = "ensureRuntime"
    /\ jobs' = Tail(jobs)
    /\ IF promises[Head(jobs).promise].state = "resolved"
       THEN /\ runtime' = Head(jobs).promise
            /\ ensureCalls' = [ensureCalls EXCEPT ![Head(jobs).id] =
                                 [pc |-> "returned", value |-> Head(jobs).promise, stops |-> stopsDone,
                                  awaited |-> TRUE]]
       ELSE /\ UNCHANGED runtime
            /\ ensureCalls' = [ensureCalls EXCEPT ![Head(jobs).id] =
                                 [pc |-> "threw", value |-> 0, stops |-> stopsDone, awaited |-> TRUE]]
    /\ UNCHANGED <<runtimePromise, promises, serviceStop, stopsDone, createdSinceStop>>
    /\ UNCHANGED <<serverVars, verifyVars, parseVars, chunkVars, statusVars, sendVars, mockVars, lifeVars, splitVars>>

\* The stop of the service is called: if (!runtimePromise) return; else it awaits
\* the promise
ServiceStop ==
    /\ serviceStop = None /\ stopsDone < MaxServiceStops
    /\ IF runtimePromise = 0
       THEN /\ stopsDone' = stopsDone + 1
            /\ createdSinceStop' = 0
            /\ UNCHANGED <<runtimePromise, runtime, promises, jobs, serviceStop>>
       ELSE LET waiting == AwaitPromise(promises, jobs, runtimePromise, Job("stop", 0, runtimePromise))
            IN  /\ promises' = waiting.promises
                /\ jobs' = waiting.jobs
                /\ serviceStop' = [t |-> "stop", pc |-> "awaitPromise", rt |-> 0]
                /\ UNCHANGED <<runtimePromise, runtime, stopsDone, createdSinceStop>>
    /\ UNCHANGED ensureCalls
    /\ UNCHANGED <<serverVars, verifyVars, parseVars, chunkVars, statusVars, sendVars, mockVars, lifeVars, splitVars>>

\* const rt = await runtimePromise; await rt.stop(): the server is closed; when
\* the promise was rejected the await throws and the finally block runs
ServiceStopResumes ==
    /\ jobs # <<>> /\ Head(jobs).who = "stop"
    /\ jobs' = Tail(jobs)
    /\ IF promises[Head(jobs).promise].state = "resolved"
       THEN /\ promises' = [promises EXCEPT ![Head(jobs).promise].server = "closing"]
            /\ serviceStop' = [t |-> "stop", pc |-> "awaitStop", rt |-> Head(jobs).promise]
            /\ UNCHANGED <<runtimePromise, runtime, stopsDone, createdSinceStop>>
       ELSE StopFinally /\ UNCHANGED promises
    /\ UNCHANGED ensureCalls
    /\ UNCHANGED <<serverVars, verifyVars, parseVars, chunkVars, statusVars, sendVars, mockVars, lifeVars, splitVars>>

\* The server emits close: webhookServer.stop() and rt.stop() resolve, and the
\* stop of the service goes on to its finally block
ServerClosed ==
    /\ jobs = <<>>
    /\ serviceStop # None /\ serviceStop.pc = "awaitStop"
    /\ promises' = [promises EXCEPT ![serviceStop.rt].server = "closed"]
    /\ jobs' = <<Job("finally", 0, serviceStop.rt)>>
    /\ UNCHANGED <<runtimePromise, runtime, ensureCalls, serviceStop, stopsDone, createdSinceStop>>
    /\ UNCHANGED <<serverVars, verifyVars, parseVars, chunkVars, statusVars, sendVars, mockVars, lifeVars, splitVars>>

\* The finally block of the stop after rt.stop() resolved
ServiceStopEnds ==
    /\ jobs # <<>> /\ Head(jobs).who = "finally"
    /\ jobs' = Tail(jobs)
    /\ StopFinally
    /\ UNCHANGED <<promises, ensureCalls>>
    /\ UNCHANGED <<serverVars, verifyVars, parseVars, chunkVars, statusVars, sendVars, mockVars, lifeVars, splitVars>>

NextRuntime ==
    \/ \E c \in Callers : EnsureRuntime(c)
    \/ \E p \in 1..MaxRuntimes : ListenCallback(p)
    \/ \E p \in 1..MaxRuntimes : ListenFails(p)
    \/ EnsureRuntimeResumes
    \/ ServiceStop
    \/ ServiceStopResumes
    \/ ServerClosed
    \/ ServiceStopEnds

SpecRuntime == InitRuntime /\ [][NextRuntime]_vars

\* The servers started and not closed
LiveServers == { p \in 1..Len(promises) : promises[p].server \in {"starting", "listening", "closing"} }

\* C30: between two stops of the service createTelephonyRuntime is invoked at most
\* once, so at most one webhook server is started, and the callers that get a
\* runtime get the same one; when a stop of the service completes, runtime and
\* runtimePromise are both null, and runtime is never set while runtimePromise
\* is null.
C30_OneRuntimeBetweenStops ==
    /\ [](createdSinceStop <= 1)
    /\ [](Cardinality(LiveServers) <= 1)
    /\ [](\A c, d \in Callers :
            (/\ ensureCalls[c].pc = "returned" /\ ensureCalls[d].pc = "returned"
             /\ ensureCalls[c].stops = ensureCalls[d].stops)
              => ensureCalls[c].value = ensureCalls[d].value)
    /\ [](runtimePromise = 0 => runtime = 0)
    /\ [][stopsDone' = stopsDone + 1 => (runtimePromise' = 0 /\ runtime' = 0)]_vars

\* C30 witness: two callers were inside ensureRuntime together while the server
\* was starting, both got the runtime, and the service was then stopped.
C30_Witness ==
    /\ stopsDone >= 1 /\ runtimePromise = 0 /\ runtime = 0
    /\ \A c \in Callers :
         ensureCalls[c].pc = "returned" /\ ensureCalls[c].awaited /\ ensureCalls[c].value = 1
    /\ Len(promises) >= 1 /\ promises[1].server = "closed"


(***************************************************************************)
(* TelephonyWebhookServer: the handling of a request.                      *)
(*                                                                         *)
(* A server is constructed with a provider and an event handler.  The      *)
(* provider is one of the adapters, or a stand-in with a fixed             *)
(* verification and parse result (as the server's tests make by            *)
(* overriding the methods of MockProvider).  The handler throws on the     *)
(* events whose messageId is in throwsOn.  calls lists, in order, the      *)
(* calls made on the provider (with what they returned or threw), on the   *)
(* handler and on the response.                                            *)
(***************************************************************************)
MAX_WEBHOOK_BODY_BYTES == 512 * 1024
webhookPath == <<"/", "t", "e", "l", "e", "p", "h", "o", "n", "y", "/", "w", "e", "b", "h", "o", "o", "k">>
statusPath == <<"/", "t", "e", "l", "e", "p", "h", "o", "n", "y", "/", "s", "t", "a", "t", "u", "s">>

MaxEvents == 2
MaxChunks == 2

Call(op, arg) == [op |-> op, arg |-> arg]

\* A ServerResponse on which nothing was set: statusCode 200, nothing sent
NewResponse == [statusCode |-> 200, headers |-> <<>>, body |-> "", ended |-> 0]

\* res.statusCode = statusCode; res.end(body), and its record in the calls.  What
\* a response sends is settled by its first end().
EndResponse(st, statusCode, body) ==
    [res |-> IF st.res.ended = 0
             THEN [st.res EXCEPT !.statusCode = statusCode, !.body = body, !.ended = 1]
             ELSE [st.res EXCEPT !.ended = @ + 1],
     calls |-> Append(st.calls, Call("end", [statusCode |-> statusCode, body |-> body]))]

\* Mutant of InternalServerError: the .catch logs the error and ends nothing.
ErrorOnlyLogged(st) == st

\* The .catch of the request listener
InternalServerError(st) == EndResponse(st, 500, "Internal Server Error")

HealthBody ==
    [name \in {"twilio", "telnyx", "plivo", "mock"} |->
       CASE name = "twilio" -> "{\"ok\":true,\"provider\":\"twilio\"}"
         [] name = "telnyx" -> "{\"ok\":true,\"provider\":\"telnyx\"}"
         [] name = "plivo" -> "{\"ok\":true,\"provider\":\"plivo\"}"
         [] name = "mock" -> "{\"ok\":true,\"provider\":\"mock\"}"]

ProviderVerify(provider, ctx, now) ==
    IF provider.kind = "double" THEN provider.verification
    ELSE VerifyWebhook(provider.name, provider.opts, ctx, now)

ProviderParse(provider, ctx, now) ==
    IF provider.kind = "double" THEN provider.result
    ELSE ParseInboundSms(provider.name, ctx, now)

\* Mutant of VerificationFailed: no verification result stops the request.
VerificationIgnored(verification) == FALSE

\* !verification.ok
VerificationFailed(verification) == ~verification.ok

\* Mutant of DispatchEvents: the loop ends at the first event on which the
\* handler throws.
DispatchUntilThrow(events, throwsOn) ==
    LET throwing == { i \in 1..Len(events) : events[i].messageId \in throwsOn }
        last == IF throwing = {} THEN Len(events)
                ELSE CHOOSE i \in throwing : \A j \in throwing : i <= j
    IN  [i \in 1..last |->
           Call("onEvent", [event |-> events[i], threw |-> events[i].messageId \in throwsOn])]

\* for (const event of result.events) { try { this.onEvent(event) } catch { log } }
DispatchEvents(events, throwsOn) ==
    [i \in 1..Len(events) |->
       Call("onEvent", [event |-> events[i], threw |-> events[i].messageId \in throwsOn])]

\* res.setHeader throws on a name that is no HTTP token
InvalidHeaderName(name) == name \in {"", "Bad Header"}

\* The response of a parse result: status, headers, end
SendResponse(st, result) ==
    LET statusCode == IF result.statusCode # 0 THEN result.statusCode ELSE 200
        hs == result.responseHeaders
        bad == { i \in 1..Len(hs) : InvalidHeaderName(hs[i].name) }
        set == IF bad = {} THEN Len(hs)
               ELSE (CHOOSE i \in bad : \A j \in bad : i <= j) - 1
        withHeaders ==
            [res |-> IF st.res.ended = 0
                     THEN [st.res EXCEPT !.statusCode = statusCode,
                                         !.headers = @ \o SubSeq(hs, 1, set)]
                     ELSE st.res,
             calls |-> st.calls \o [i \in 1..Len(hs) |-> Call("setHeader", hs[i])]]
    IN  IF bad # {}
        THEN InternalServerError(
               [withHeaders EXCEPT !.calls = SubSeq(@, 1, Len(st.calls) + set + 1)])
        ELSE EndResponse(withHeaders, statusCode,
                         IF result.responseBody # "" THEN result.responseBody ELSE "OK")

\* handleRequest after provider.verifyWebhook(ctx); result is what
\* provider.parseInboundSms(ctx) gives when it is called
HandleVerified(srv, st, verification, result) ==
    IF verification.t = "throw" THEN InternalServerError(st)
    ELSE IF VerificationFailed(verification) THEN EndResponse(st, 401, "Unauthorized")
    ELSE IF result.t = "throw"
    THEN InternalServerError([st EXCEPT !.calls = Append(@, Call("parseInboundSms", result))])
    ELSE SendResponse(
           [st EXCEPT !.calls = Append(@, Call("parseInboundSms", result))
                                  \o DispatchEvents(result.events, srv.throwsOn)],
           result)

\* The call of provider.verifyWebhook(ctx) and its record
HandleContext(srv, st, ctx, now, verification) ==
    HandleVerified(srv, [st EXCEPT !.calls = Append(@, Call("verifyWebhook", verification))],
                   verification, ProviderParse(srv.provider, ctx, now))

\* handleRequest from the building of the context on, with the body read
HandleBody(srv, request, st, body) ==
    LET ctx == [url |-> Url("http://" \o request.host, request.pathname, request.search,
                            request.hostValid),
                headers |-> request.headers, rawBody |-> body]
    IN  HandleContext(srv, st, ctx, request.now,
                      ProviderVerify(srv.provider, ctx, request.now))


PathChars ==
    ("/health" :> <<"/", "h", "e", "a", "l", "t", "h">>)
      @@ ("/telephony/webhook" :> <<"/", "t", "e", "l", "e", "p", "h", "o", "n", "y", "/", "w", "e", "b", "h", "o", "o", "k">>)
      @@ ("/telephony/webhook/sms" :> <<"/", "t", "e", "l", "e", "p", "h", "o", "n", "y", "/", "w", "e", "b", "h", "o", "o", "k", "/", "s", "m", "s">>)
      @@ ("/telephony/webhooks" :> <<"/", "t", "e", "l", "e", "p", "h", "o", "n", "y", "/", "w", "e", "b", "h", "o", "o", "k", "s">>)
      @@ ("/telephony/status" :> <<"/", "t", "e", "l", "e", "p", "h", "o", "n", "y", "/", "s", "t", "a", "t", "u", "s">>)
      @@ ("/telephony" :> <<"/", "t", "e", "l", "e", "p", "h", "o", "n", "y">>)
      @@ ("/" :> <<"/">>)

Request(method, pathname, host, hostValid, headers, rawBody) ==
    [method |-> method, pathname |-> pathname, search |-> "", host |-> host,
     hostValid |-> hostValid, headers |-> headers, rawBody |-> rawBody, now |-> 1000000]

\* Requests of every method and path, and requests that carry what an adapter reads
Requests ==
    { Request(m, p, h[1], h[2], Headers(<<>>), <<"{", "}">>) :
        m \in {"GET", "POST", "PUT"}, p \in DOMAIN PathChars,
        h \in { <<"127.0.0.1:3335", TRUE>>, <<"a b", FALSE>> } }
      \cup { Request("POST", "/telephony/webhook", "127.0.0.1:3335", TRUE, hs, b) :
               hs \in { Headers("x-twilio-signature" :>
                          signTwilio(<<"http://127.0.0.1:3335", "/telephony/webhook">>,
                                     <<"M", "e", "s", "s", "a", "g", "e", "S", "i", "d", "=", "S", "M", "1", "&", "B", "o", "d", "y", "=", "h", "i">>, AuthToken)),
                        Headers("x-twilio-signature" :>
                          Edited(Digest("sha1", AuthToken, <<>>), "nonascii")),
                        Headers("content-type" :> JStr(<<"a", "p", "p", "l", "i", "c", "a", "t", "i", "o", "n", "/", "j", "s", "o", "n">>)) },
               b \in { <<"M", "e", "s", "s", "a", "g", "e", "S", "i", "d", "=", "S", "M", "1", "&", "B", "o", "d", "y", "=", "h", "i">>, <<"n", "u", "l", "l">>,
                       <<"{", "U+0022", "T", "y", "p", "e", "U+0022", ":", "U+0022", "d", "l", "r", "U+0022", ",", "U+0022", "S", "t", "a", "t", "u", "s", "U+0022", ":", "U+0022", "s", "e", "n", "t", "U+0022", ",", "U+0022", "M", "e", "s", "s", "a", "g", "e", "U", "U", "I", "D", "U+0022", ":", "U+0022", "u", "1", "U+0022", "}">>,
                       <<"{", "U+0022", "d", "a", "t", "a", "U+0022", ":", "{", "U+0022", "e", "v", "e", "n", "t", "_", "t", "y", "p", "e", "U+0022", ":", "U+0022", "m", "e", "s", "s", "a", "g", "e", ".", "r", "e", "c", "e", "i", "v", "e", "d", "U+0022", ",", "U+0022", "i", "d", "U+0022", ":", "U+0022", "m", "1", "U+0022", ",", "U+0022", "p", "a", "y", "l", "o", "a", "d", "U+0022", ":", "{", "U+0022", "t", "e", "x", "t", "U+0022", ":", "U+0022", "h", "i", "U+0022", "}", "}", "}">> } }

Event(id) == [type |-> "inbound_sms", messageId |-> JStr(id)]
EventIds == { <<"e", "1">>, <<"e", "2">> }

\* What a parse result can say about the response: everything, nothing, an error
\* status, a header that cannot be set
ResultShapes ==
    { [statusCode |-> 200, responseBody |-> EmptyTwiml, responseHeaders |-> XmlHeaders],
      [statusCode |-> 0, responseBody |-> "", responseHeaders |-> <<>>],
      [statusCode |-> 400, responseBody |-> "Invalid JSON", responseHeaders |-> <<>>],
      [statusCode |-> 200, responseBody |-> "OK",
       responseHeaders |-> XmlHeaders \o << [name |-> "Bad Header", value |-> "x"] >>] }

Doubles ==
    { [kind |-> "double", name |-> "mock", opts |-> None, verification |-> v, result |-> r] :
        v \in { Returned(TRUE, ""), Returned(FALSE, "Invalid signature"), Thrown("Error") },
        r \in { ParseThrown("Error") }
               \cup { ParseResult([i \in 1..Len(ids) |-> Event(ids[i])],
                                  sh.statusCode, sh.responseBody, sh.responseHeaders) :
                        ids \in SeqsUpTo(EventIds, MaxEvents), sh \in ResultShapes } }

Adapters ==
    { [kind |-> "adapter", name |-> n, opts |-> Options("", SpkiKey, skip),
       verification |-> None, result |-> None] :
        n \in {"twilio", "telnyx", "plivo", "mock"}, skip \in BOOLEAN }

Servers ==
    { [provider |-> p, throwsOn |-> { JStr(id) : id \in ids }] :
        p \in Doubles, ids \in SUBSET EventIds }
      \cup { [provider |-> p, throwsOn |-> ids] :
               p \in Adapters, ids \in { {}, {JStr(<<"S", "M", "1">>), JStr(<<"u", "1">>), JStr(<<"m", "1">>)} } }

Init ==
    /\ server \in Servers
    /\ pc = "idle" /\ req = None /\ totalBytes = 0 /\ chunks = 0
    /\ timer = "none" /\ destroyed = FALSE /\ res = None /\ calls = <<>>
    /\ VerifyIdle /\ ParseIdle /\ ChunkIdle /\ StatusIdle /\ SendIdle /\ MockIdle /\ LifeIdle /\ SplitIdle /\ RuntimeIdle

Settle(st) == res' = st.res /\ calls' = st.calls

\* A request arrives: handleRequest up to the await of readBody
Receive ==
    /\ pc = "idle"
    /\ \E r \in Requests :
         LET st == [res |-> NewResponse, calls |-> <<>>]
             path == PathChars[r.pathname]
         IN  /\ req' = r
             /\ totalBytes' = 0 /\ chunks' = 0 /\ destroyed' = FALSE
             /\ IF ~r.hostValid
                THEN Settle(InternalServerError(st)) /\ pc' = "done" /\ timer' = "none"
                ELSE IF path = <<"/", "h", "e", "a", "l", "t", "h">> /\ r.method = "GET"
                THEN /\ Settle(EndResponse(st, 200, HealthBody[server.provider.name]))
                     /\ pc' = "done" /\ timer' = "none"
                ELSE IF r.method # "POST"
                THEN /\ Settle(EndResponse(st, 405, "Method Not Allowed"))
                     /\ pc' = "done" /\ timer' = "none"
                ELSE IF ~StartsWith(path, webhookPath) /\ ~StartsWith(path, statusPath)
                THEN /\ Settle(EndResponse(st, 404, "Not Found"))
                     /\ pc' = "done" /\ timer' = "none"
                ELSE Settle(st) /\ pc' = "reading" /\ timer' = "armed"
    /\ UNCHANGED <<server, verifyVars, parseVars, chunkVars, statusVars, sendVars, mockVars,
                   lifeVars, splitVars, runtimeVars>>

ChunkSizes == {1, MAX_WEBHOOK_BODY_BYTES - 1, MAX_WEBHOOK_BODY_BYTES}

\* Mutant of BodyTooLarge: a body of exactly maxBytes is refused too.
BodyTooLargeAtLimit(total, maxBytes) == total >= maxBytes

\* totalBytes > maxBytes
BodyTooLarge(total, maxBytes) == total > maxBytes

\* req.on("data"): a chunk of n bytes
ReadData ==
    /\ pc = "reading" /\ chunks < MaxChunks
    /\ \E n \in ChunkSizes :
         /\ totalBytes' = totalBytes + n
         /\ IF BodyTooLarge(totalBytes + n, MAX_WEBHOOK_BODY_BYTES)
            THEN /\ destroyed' = TRUE
                 /\ Settle(EndResponse([res |-> res, calls |-> calls], 413, "Payload Too Large"))
                 /\ pc' = "done"
                 /\ chunks' = chunks
            ELSE /\ chunks' = chunks + 1
                 /\ UNCHANGED <<destroyed, res, calls, pc>>
    /\ UNCHANGED <<server, req, timer, verifyVars, parseVars, chunkVars, statusVars, sendVars,
                   mockVars, lifeVars, splitVars, runtimeVars>>

\* req.on("end"): the body is complete; handleRequest runs to its end
ReadEnd ==
    /\ pc = "reading"
    /\ Settle(HandleBody(server, req, [res |-> res, calls |-> calls],
                         IF chunks = 0 THEN <<>> ELSE req.rawBody))
    /\ pc' = "done"
    /\ UNCHANGED <<server, req, totalBytes, chunks, timer, destroyed, verifyVars,
                   parseVars, chunkVars, statusVars, sendVars, mockVars, lifeVars,
                   splitVars, runtimeVars>>

\* req.on("error"): readBody rejects, handleRequest rethrows
ReadError ==
    /\ pc = "reading"
    /\ Settle(InternalServerError([res |-> res, calls |-> calls]))
    /\ pc' = "done"
    /\ UNCHANGED <<server, req, totalBytes, chunks, timer, destroyed, verifyVars,
                   parseVars, chunkVars, statusVars, sendVars, mockVars, lifeVars,
                   splitVars, runtimeVars>>

\* The 30 s timer of readBody fires: req.destroy() and a reject, which only
\* matters while the body is being read
ReadTimeout ==
    /\ timer = "armed"
    /\ timer' = "fired"
    /\ destroyed' = TRUE
    /\ IF pc = "reading"
       THEN Settle(InternalServerError([res |-> res, calls |-> calls])) /\ pc' = "done"
       ELSE UNCHANGED <<res, calls, pc>>
    /\ UNCHANGED <<server, req, totalBytes, chunks, verifyVars, parseVars, chunkVars,
                   statusVars, sendVars, mockVars, lifeVars, splitVars, runtimeVars>>

\* req.on("close") after the reading is over: clearTimeout(timer)
ReqClose ==
    /\ timer = "armed" /\ pc = "done"
    /\ timer' = "cleared"
    /\ UNCHANGED <<server, pc, req, totalBytes, chunks, destroyed, res, calls,
                   verifyVars, parseVars, chunkVars, statusVars, sendVars, mockVars,
                   lifeVars, splitVars, runtimeVars>>

\* The request is over; the server waits for the next one
Finish ==
    /\ pc = "done" /\ timer # "armed"
    /\ pc' = "idle" /\ req' = None /\ totalBytes' = 0 /\ chunks' = 0
    /\ timer' = "none" /\ destroyed' = FALSE /\ res' = None /\ calls' = <<>>
    /\ UNCHANGED <<server, verifyVars, parseVars, chunkVars, statusVars, sendVars, mockVars,
                   lifeVars, splitVars, runtimeVars>>

Next ==
    \/ Receive \/ ReadData \/ ReadEnd \/ ReadError \/ ReadTimeout \/ ReqClose \/ Finish

Spec == Init /\ [][Next]_vars


(***************************************************************************)
(* Claims about the handling of a request, under Spec.                     *)
(***************************************************************************)
CallsOf(ops) == SelectSeq(calls, LAMBDA c : c.op \in ops)

\* The request reached the provider, and its verifyWebhook returned ok: false
VerificationRejected ==
    \E i \in 1..Len(calls) :
        calls[i].op = "verifyWebhook" /\ calls[i].arg.t = "return" /\ ~calls[i].arg.ok

\* C1: when verifyWebhook returns ok: false for a POST whose body was read, the
\* server answers 401, parseInboundSms is not called and the event handler is
\* not invoked.
C1_RejectedRequestIsNotParsed ==
    VerificationRejected =>
        /\ res.statusCode = 401 /\ res.body = "Unauthorized" /\ res.ended = 1
        /\ CallsOf({"parseInboundSms", "onEvent"}) = <<>>
        /\ calls[Len(calls)] = Call("end", [statusCode |-> 401, body |-> "Unauthorized"])

C1_Witness ==
    /\ VerificationRejected /\ pc = "done" /\ req.method = "POST"
    /\ server.provider.kind = "adapter" /\ res.statusCode = 401

\* The request was verified and parseInboundSms returned a result
ParsedResult ==
    LET ps == CallsOf({"parseInboundSms"})
    IN  IF Len(ps) = 1 /\ ps[1].arg.t = "return" THEN ps[1].arg ELSE None

\* C6: for a verified request the handler is invoked exactly once for each event
\* of the parse result, in the order of the list, whether or not it throws on
\* some of them; the response is written after the last event, with the status
\* and body of the parse result (200 and "OK" where it has none), unless a
\* header of the result cannot be set, which gives a 500.
C6_EveryEventDispatchedThenAcknowledged ==
    ParsedResult # None =>
        LET result == ParsedResult
            dispatched == CallsOf({"onEvent"})
            settable == \A i \in 1..Len(result.responseHeaders) :
                            ~InvalidHeaderName(result.responseHeaders[i].name)
            statusCode == IF result.statusCode # 0 THEN result.statusCode ELSE 200
            body == IF result.responseBody # "" THEN result.responseBody ELSE "OK"
        IN  /\ [i \in 1..Len(dispatched) |-> dispatched[i].arg.event] = result.events
            /\ \A i \in 1..Len(calls) :
                 calls[i].op = "onEvent" =>
                   /\ \E j \in 1..(i - 1) : calls[j].op = "parseInboundSms"
                   /\ \E j \in (i + 1)..Len(calls) : calls[j].op = "end"
            /\ res.ended = 1
            /\ IF settable
               THEN /\ calls[Len(calls)] = Call("end", [statusCode |-> statusCode, body |-> body])
                    /\ res.statusCode = statusCode /\ res.body = body
               ELSE res.statusCode = 500

C6_Witness ==
    /\ ParsedResult # None /\ Len(ParsedResult.events) = MaxEvents
    /\ CallsOf({"onEvent"})[1].arg.threw
    /\ Len(CallsOf({"onEvent"})) = MaxEvents
    /\ res.statusCode = 400 /\ res.ended = 1

\* Whether the parse result of the request specifies a responseBody: every
\* return of the four adapters does (Telnyx an empty one); a stand-in's result
\* without one is modelled by "".
BodySpecified == server.provider.kind = "adapter" \/ ParsedResult.responseBody # ""

\* C14 (as claimed): for a verified request the response carries exactly the
\* statusCode, responseBody and responseHeaders of the parse result, 200 and "OK"
\* standing in only for what the result leaves unspecified; the acknowledgement
\* of a Telnyx event, whose result specifies an empty body, has an empty body.
C14_ResponseCarriesParseResult ==
    ParsedResult # None =>
        /\ res.ended = 1
        /\ res.statusCode = IF ParsedResult.statusCode # 0 THEN ParsedResult.statusCode ELSE 200
        /\ res.headers = ParsedResult.responseHeaders
        /\ res.body = IF BodySpecified THEN ParsedResult.responseBody ELSE "OK"

\* The routing answered the request with this status, before any body was read
Answered(statusCode) ==
    /\ pc = "done" /\ res.ended = 1 /\ res.statusCode = statusCode
    /\ CallsOf({"verifyWebhook", "parseInboundSms", "onEvent"}) = <<>>

\* The path of the request is the configured path p or lies under it
PathUnder(p) ==
    LET path == PathChars[req.pathname]
    IN  path = p \/ StartsWith(path, p \o <<"/">>)

\* C16 (as claimed): GET /health is answered 200; a non-POST request to a path
\* under the webhook path or the status path is answered 405; a POST to such a
\* path enters the verify-parse-dispatch pipeline; every other request, whatever
\* its method, is answered 404.  Stated for requests whose Host header makes a
\* URL.
C16_Routing ==
    (req # None /\ req.hostValid) =>
        LET configured == PathUnder(webhookPath) \/ PathUnder(statusPath)
        IN  IF req.pathname = "/health" /\ req.method = "GET" THEN Answered(200)
            ELSE IF configured /\ req.method # "POST" THEN Answered(405)
            ELSE IF configured
            THEN pc = "reading" \/ ~(Answered(404) \/ Answered(405))
            ELSE Answered(404)

\* C17: once the chunks received add up to more than 512 KiB the server stops
\* reading (req.destroy()) and answers 413, and verifyWebhook, parseInboundSms
\* and the event handler are not called for the request; up to and including
\* 524288 bytes the body is not refused.
C17_OversizeBodyRefused ==
    /\ totalBytes > 524288 =>
          /\ destroyed /\ pc = "done"
          /\ res.ended = 1 /\ res.statusCode = 413 /\ res.body = "Payload Too Large"
          /\ CallsOf({"verifyWebhook", "parseInboundSms", "onEvent"}) = <<>>
    /\ (pc # "idle" /\ totalBytes <= 524288) => res.statusCode # 413
    /\ (pc = "reading" /\ totalBytes <= 524288) => ~destroyed /\ res.ended = 0

\* C17 witness: a chunk of 524288 bytes was taken, and one more byte brought
\* the 413.
C17_Witness ==
    /\ totalBytes = 524289 /\ chunks = 1
    /\ destroyed /\ res.statusCode = 413

\* C18 (as claimed): when the 30 s timer fires while the body is still being
\* read, the connection is aborted and the server writes no response of its own:
\* no status code or body is set or sent, and verifyWebhook, parseInboundSms and
\* the event handler are not called.
C18_TimeoutWritesNoResponse ==
    [][(pc = "reading" /\ timer = "armed" /\ timer' = "fired") =>
          /\ destroyed'
          /\ res' = NewResponse
          /\ calls' = <<>>]_vars

\* C29: the response of a request is ended at most once while the request is
\* handled, and exactly once when the handler is through with it, on every path:
\* health check, 405, 404, 413, 401, acknowledgement, and every exception that the
\* request listener turns into a 500.
C29_ResponseEndedExactlyOnce ==
    /\ res # None => res.ended <= 1 /\ Len(CallsOf({"end"})) = res.ended
    /\ pc = "done" => res.ended = 1

\* C29 witness: setting a header of the parse result threw after the status was
\* set and events were dispatched, and the request listener ended the response
\* with a 500.
C29_Witness ==
    /\ pc = "done" /\ res.ended = 1 /\ res.statusCode = 500
    /\ CallsOf({"onEvent"}) # <<>>
    /\ CallsOf({"setHeader"}) # <<>>

==========================================================================
